---- MODULE Spec2Model ----
(***************************************************************************)
(* Anexis: the socket package (connection pumps, Hub, job notifier, server *)
(* handler) and the build service's asynchronous job entry points.         *)
(*                                                                         *)
(* The repository holds two copies of the socket package (src/socket and   *)
(* src/unnamed/part_016..018).  They differ in one behaviour the model     *)
(* keeps: a frame whose envelope does not decode is ignored by             *)
(* src/socket/conn.go and answered with an error of empty request_id by    *)
(* src/unnamed/part_016.  readPump takes either course on such a frame.    *)
(***************************************************************************)
EXTENDS Integers, Sequences, FiniteSets, TLC

\* ------------------------------------------------------------- bounds
\* capacity of a connection's send queue (256 in the code, scaled down)
SendCap == 2
\* inbound frames read by the server over all connections
MaxMsgs == 3
\* build jobs accepted by the server
MaxBuilds == 1
\* notifications a job emits before it returns into its deferred epilogue
MaxEvents == 2
\* entries of an archive
MaxEntries == 2
\* build steps of a specification
MaxSteps == 2
\* messages of an engine's build stream
MaxStream == 3
\* calls of Client.SendRequest
MaxReqs == 2
\* inbound messages a client's reader decodes
MaxInbound == 2
\* capacity of Client.Incoming (100 in the code, scaled down)
IncomingCap == 1
\* calls of Client.Close
MaxCloses == 2

Conns == {"c1"}
NoConn == "nil"
Builds == 1..MaxBuilds
NoRid == 0
Tasks == {"main", "aux"}

VARIABLES
    hubClients,    \* Hub.clients
    wsUp,          \* per connection: the transport is usable
    send,          \* per connection: contents of the send channel
    sendClosed,    \* per connection: close(c.send) has run
    rpc,           \* per connection: position of readPump
    rmsg,          \* per connection: the error reply readPump is about to send
    wpc,           \* per connection: position of writePump
    cur,           \* per connection: the frame readPump decoded last (its msg)
    nread,         \* frames read so far; the k-th frame carries request_id k
    delivered,     \* per build: its events written to the transport, in order
    nextBuild,     \* number of build ids handed out
    buildToClient, \* per build: its notifier's buildToClient[buildID]
    origin,        \* per build: the connection and request that started it
    jpc,           \* per build: position of the job's task
    jfinal,        \* per build: finalStatus of runBuildLogic
    produced,      \* per build: notifications started by the job so far
    calls,         \* per build and task: the NotifyLog/NotifyStatus call in progress
    panicked,      \* the process died on "send on closed channel"
    \* one job seen from inside (runBuildLogic of socket.go, Build of part_002)
    impl,          \* which of the two job bodies runs
    bspec,         \* the job's BuildSpec (spec)
    lpc,           \* position of the job body
    buildErr,      \* buildErr / the error Build returns ("" is nil)
    finalStatus,   \* finalStatus / result.Success
    artifactRef,   \* artifactRef of runBuildLogic
    shouldCleanup, \* shouldCleanup
    deferred,      \* the deferred functions registered so far, oldest first
    dirExists,     \* the job's build directory exists on disk
    phases,        \* the phases the job body entered, in order
    statuses,      \* the build_status payloads put on the client's queue, in order
    chanClosed,    \* the client's send channel was closed by the Hub
    panicking,     \* the panic unwinding the job's goroutine ("" is none)
    crashed,       \* a panic left the job body: the process died
    errors,        \* the errors the operations of the job body returned, in order
    \* one archive being extracted (extractTar, extractZip of part_002)
    format,        \* the archive's format
    archive,       \* its entries, in order
    epos,          \* the entry the loop is at
    fs,            \* what the extraction has created on disk
    eerr,          \* the error the extraction returned ("" is nil)
    \* the build steps of one Build (part_002 390-495)
    steps,             \* spec.BuildSteps
    stepIdx,           \* the step the loop is at
    stepPc,            \* position inside the loop's body
    extractedBinaries, \* the keys of extractedBinaries
    stepsBuilt,        \* the steps whose image buildSingleImage was asked to build
    injected,          \* the steps whose codebase got a binary written into it
    \* the main build of one Build, its outputs and its run file (part_002 497-759)
    storage,        \* spec.RunConfigDef.ArtifactStorage
    fileEnv,        \* the variables read from spec.EnvFiles
    specEnv,        \* spec.Env
    runtimeSecrets, \* runtimeSecrets: the secrets fetched for the run file
    project,        \* the services of the compose file
    pending,        \* the services buildComposeProject has not come to yet
    buildErrors,    \* buildErrors of buildComposeProject
    result,         \* the BuildResult
    finalImageTags, \* finalImageTags
    engineImages,   \* the references the engine's image store resolves
    disk,           \* the files written, by path
    runYAML,        \* the run file written
    \* one git codebase being fetched (fetchGitRepoWithGoGit of part_002)
    gitConfig,      \* the codebase's Branch and Commit
    objects,        \* the commits the clone in destDir holds
    gpc,            \* position of fetchGitRepoWithGoGit
    checkouts,      \* the results of w.Checkout, in order
    fetches,        \* the results of repo.FetchContext, in order
    gitErr,         \* the error fetchGitRepoWithGoGit returned ("" is nil)
    \* one single image build (buildSingleImage, buildSingleImageWithLogs)
    imgVariant,     \* which of the two functions runs
    imgBuildKit,    \* spec.BuildConfig.BuildKit
    imgTags,        \* whether spec.BuildConfig.Tags holds a tag
    requests,       \* the builder versions asked of ImageBuild, in order
    replies,        \* what ImageBuild returned to each request
    imgStream,      \* the messages of the engine's response
    imgGarbled,     \* whether the response ends on bytes that do not decode
    handsAll,       \* whether the stream library hands every message to the callback
    imgPos,         \* the next message to decode
    streamErr,      \* the error DisplayJSONMessagesStream returned
    ipc,            \* position of the function
    builtID,        \* imageID
    imgErr,         \* the error returned ("" is nil)
    \* one Client (client.go) over its connection
    clConn,          \* c.conn: "conn" or "nil"
    isConnected,     \* c.isConnected
    doneClosed,      \* close(c.Done) has run
    clSendClosed,    \* close(c.conn.send) has run
    clQueued,        \* messages on the connection's send channel
    clUp,            \* the transport is usable
    clReader,        \* position of the connection's readPump
    clWriter,        \* position of the connection's writePump
    pendingRequests, \* the keys of c.pendingRequests
    respChan,        \* per request: its reply channel
    Incoming,        \* c.Incoming
    reqPc,           \* per request: position of SendRequest
    reqOut,          \* per request: what SendRequest returned
    senderPc,        \* position of a call of Send
    handled,         \* the inbound messages handled and where each was put
    closeCalls,      \* calls of Close so far
    clPanic,         \* the panic that killed the client's process ("" is none)
    ninbound         \* inbound messages decoded so far

connVars == <<hubClients, wsUp, send, sendClosed, rpc, rmsg, wpc, cur, nread>>
histVars == <<delivered>>
jobVars == <<nextBuild, buildToClient, origin, jpc, jfinal, produced, calls>>
sockVars == <<connVars, histVars, jobVars, panicked>>
bodyVars == <<impl, bspec, lpc, buildErr, finalStatus, artifactRef, shouldCleanup,
              deferred, dirExists, phases, statuses, chanClosed, panicking, crashed,
              errors>>
extractVars == <<format, archive, epos, fs, eerr>>
stepVars == <<steps, stepIdx, stepPc, extractedBinaries, stepsBuilt, injected>>
manVars == <<storage, fileEnv, specEnv, runtimeSecrets, project, pending, buildErrors, result,
             finalImageTags, engineImages, disk, runYAML>>
gitVars == <<gitConfig, objects, gpc, checkouts, fetches, gitErr>>
imgVars == <<imgVariant, imgBuildKit, imgTags, requests, replies, imgStream, imgGarbled, handsAll, imgPos, streamErr, ipc, builtID, imgErr>>
clVars == <<clConn, isConnected, doneClosed, clSendClosed, clQueued, clUp, clReader, clWriter,
            pendingRequests, respChan, Incoming, reqPc, reqOut, senderPc, handled, closeCalls,
            clPanic, ninbound>>
auxVars == <<stepVars, manVars, gitVars, imgVars, clVars>>
besideSteps == <<sockVars, extractVars, manVars, gitVars, imgVars, clVars>>
besideManifest == <<sockVars, extractVars, stepVars, gitVars, imgVars, clVars>>
besideGit == <<sockVars, bodyVars, extractVars, stepVars, manVars, imgVars, clVars>>
besideImage == <<sockVars, bodyVars, extractVars, stepVars, manVars, gitVars, clVars>>
besideClient == <<sockVars, bodyVars, extractVars, stepVars, manVars, gitVars, imgVars>>
extVars == <<bodyVars, extractVars, auxVars>>
notBody == <<sockVars, extractVars, auxVars>>
vars == <<sockVars, extVars>>

\* ------------------------------------------------------------- messages
EvtBuildRequest == "build_request"
EvtSecretRequest == "secret_request"
EvtBuildQueued == "build_queued"
EvtLogChunk == "log_chunk"
EvtBuildStatus == "build_status"
EvtSecretResponse == "secret_response"
EvtError == "error"

NoMsg == [type |-> "none"]

NewMessage(eventType, requestID) ==
    [type |-> eventType, rid |-> requestID, build |-> 0, status |-> "",
     error |-> "", details |-> <<>>, source |-> "", value |-> "", n |-> 0]

NewErrorMessage(requestID, errMsg, details) ==
    [NewMessage(EvtError, requestID) EXCEPT !.error = errMsg, !.details = details]

\* DecodePayload: "" when the payload decodes, else the error text
DecodePayload(in) ==
    CASE in.payload = "empty" -> "message payload is empty"
      [] in.payload = "malformed" -> "failed to unmarshal payload"
      [] OTHER -> ""

IsTerminal(status) == status = "success" \/ status = "failure"


\* ------------------------------------------------------------- inbound frames
\* The secret provider is a collaborator; this is the one of the socket test.
GetSecret(source) ==
    IF source = "valid/secret"
    THEN [ok |-> TRUE, value |-> "secret_value_123", err |-> <<>>]
    ELSE [ok |-> FALSE, value |-> "", err |-> <<"secret", source, "not found">>]

\* LoadBuildSpecFromBytes as StartBuildAsync sees it: the YAML is accepted or not
SpecLoads(spec) == spec = "valid"

Frame(env, type, rid, payload, spec, source) ==
    [env |-> env, type |-> type, rid |-> rid, payload |-> payload,
     spec |-> spec, source |-> source]

NoFrame == Frame(FALSE, "", NoRid, "", "", "")

BadPayloads == {"empty", "malformed", "blank"}

\* the frames a client may send as its k-th request (request ids are unique,
\* as uuid.NewString makes them in Client.SendRequest)
Inbound(k) ==
    {Frame(FALSE, "", k, "", "", "")}
    \cup {Frame(TRUE, EvtBuildRequest, k, "ok", s, "") : s \in {"valid", "invalid"}}
    \cup {Frame(TRUE, EvtBuildRequest, k, p, "", "") : p \in BadPayloads}
    \cup {Frame(TRUE, EvtSecretRequest, k, "ok", "", s) : s \in {"valid/secret", "missing"}}
    \cup {Frame(TRUE, EvtSecretRequest, k, p, "", "") : p \in BadPayloads}
    \cup {Frame(TRUE, "deploy", k, "ok", "", "")}

\* ------------------------------------------------------------- send queue
\* (variant: a queue that hands its newest message to the writer first)
EnqueueFront(q, m) == <<m>> \o q

\* c.send <- msg on the buffered channel: first in, first out
Enqueue(q, m) == Append(q, m)

QueueFull(q) == Len(q) >= SendCap

\* connection.sendMsg: non-blocking send, dropped when the buffer is full.
\* A send on a closed channel panics.  Nothing recovers the panic in the
\* handler's goroutine; in runBuildLogic the status defer recovers it and then
\* notifies through the same closed channel, which panics again, unrecovered.
SendMsg(c, m) ==
    IF sendClosed[c]
    THEN panicked' = TRUE /\ UNCHANGED send
    ELSE /\ panicked' = panicked
         /\ IF QueueFull(send[c])
            THEN send' = send
            ELSE send' = [send EXCEPT ![c] = Enqueue(@, m)]

\* ------------------------------------------------------------- server handler
\* the error Server.handleMessage returns (<<>> for nil)
HandlerError(in) ==
    CASE in.type = EvtBuildRequest ->
            IF DecodePayload(in) # ""
            THEN <<"invalid build request payload", DecodePayload(in)>>
            ELSE IF in.payload = "blank"
                 THEN <<"build spec YAML cannot be empty">>
                 ELSE <<>>
      [] in.type = EvtSecretRequest ->
            IF DecodePayload(in) # ""
            THEN <<"invalid secret request payload", DecodePayload(in)>>
            ELSE IF in.payload = "blank"
                 THEN <<"secret source cannot be empty">>
                 ELSE <<>>
      [] OTHER -> <<>>

BuildQueued(in, b) == [NewMessage(EvtBuildQueued, in.rid) EXCEPT !.build = b]

\* case EvtBuildRequest, payload accepted: ack, register, spawn the job task
HandleBuildRequest(in, c) ==
    LET b == nextBuild + 1 IN
    /\ SendMsg(c, BuildQueued(in, b))
    /\ nextBuild' = b
    /\ buildToClient' = [buildToClient EXCEPT ![b] = c]
    /\ origin' = [origin EXCEPT ![b] = [conn |-> c, rid |-> in.rid, spec |-> in.spec]]
    /\ jpc' = [jpc EXCEPT ![b] = "start"]
    /\ UNCHANGED <<jfinal, produced, calls>>

\* (variant: a reply that leaves out what the provider returned)
SecretReplyBare(in) ==
    IF GetSecret(in.source).ok
    THEN [NewMessage(EvtSecretResponse, in.rid) EXCEPT !.source = in.source]
    ELSE NewErrorMessage(in.rid, "Failed to fetch secret", <<>>)

\* the reply to a secret request whose payload was accepted
SecretReply(in) ==
    LET r == GetSecret(in.source) IN
    IF r.ok
    THEN [NewMessage(EvtSecretResponse, in.rid) EXCEPT !.source = in.source, !.value = r.value]
    ELSE NewErrorMessage(in.rid, "Failed to fetch secret", r.err)

\* case EvtSecretRequest, payload accepted
HandleSecretRequest(in, c) ==
    /\ SendMsg(c, SecretReply(in))
    /\ UNCHANGED jobVars

\* (variant: an error reply that does not name the request)
UnhandledReplyNoRid(in) ==
    NewErrorMessage(NoRid, "Unhandled message type", <<"Type not supported by server", in.type>>)

\* NewErrorMessage(msg.RequestID, "Unhandled message type", ...)
UnhandledReply(in) ==
    NewErrorMessage(in.rid, "Unhandled message type", <<"Type not supported by server", in.type>>)

\* default case
HandleUnknown(in, c) ==
    /\ SendMsg(c, UnhandledReply(in))
    /\ UNCHANGED jobVars

\* Server.handleMessage, its effects; HandlerError is what it returns
HandleMessage(in, c) ==
    IF HandlerError(in) # <<>>
    THEN UNCHANGED <<send, panicked, jobVars>>
    ELSE CASE in.type = EvtBuildRequest -> HandleBuildRequest(in, c)
           [] in.type = EvtSecretRequest -> HandleSecretRequest(in, c)
           [] OTHER -> HandleUnknown(in, c)

\* ------------------------------------------------------------- connection pumps
\* Server.ServeHTTP: register with the Hub, start both pumps
ServeHTTP(c) ==
    /\ ~panicked
    /\ rpc[c] = "idle"
    /\ hubClients' = hubClients \cup {c}
    /\ wsUp' = [wsUp EXCEPT ![c] = TRUE]
    /\ rpc' = [rpc EXCEPT ![c] = "read"]
    /\ wpc' = [wpc EXCEPT ![c] = "run"]
    /\ UNCHANGED <<send, sendClosed, rmsg, cur, nread, histVars, jobVars, panicked>>
    /\ UNCHANGED extVars

\* the peer goes away or the network fails
TransportFail(c) ==
    /\ ~panicked
    /\ rpc[c] # "idle"
    /\ wsUp[c]
    /\ wsUp' = [wsUp EXCEPT ![c] = FALSE]
    /\ UNCHANGED <<hubClients, send, sendClosed, rpc, rmsg, wpc, cur, nread, histVars, jobVars, panicked>>
    /\ UNCHANGED extVars

\* the two copies of readPump
Variants == {"conn.go", "part_016"}

\* what readPump does with a frame whose envelope does not unmarshal
BadEnvelopeReply(v) ==
    IF v = "part_016"
    THEN NewErrorMessage(NoRid, "Invalid message format", <<"json">>)
    ELSE NoMsg

\* (variant: an error reply that does not name the request)
AfterHandlerNoRid(in, err) ==
    IF err # <<>>
    THEN [pc |-> "reply", msg |-> NewErrorMessage(NoRid, "Failed to handle request", err)]
    ELSE [pc |-> "read", msg |-> NoMsg]

\* where readPump goes after the handler returned err for frame "in"
AfterHandler(in, err) ==
    IF err # <<>>
    THEN [pc |-> "reply", msg |-> NewErrorMessage(in.rid, "Failed to handle request", err)]
    ELSE [pc |-> "read", msg |-> NoMsg]

\* readPump: one text frame read, decoded and handled
ReadPumpRead(c) ==
    /\ ~panicked
    /\ rpc[c] = "read"
    /\ wsUp[c]
    /\ nread < MaxMsgs
    /\ \E in \in Inbound(nread + 1) :
          /\ (in.type = EvtBuildRequest /\ HandlerError(in) = <<>>) => nextBuild < MaxBuilds
          /\ nread' = nread + 1
          /\ cur' = [cur EXCEPT ![c] = in]
          /\ IF ~in.env
             THEN /\ \E v \in Variants :
                        /\ rmsg' = [rmsg EXCEPT ![c] = BadEnvelopeReply(v)]
                        /\ rpc' = [rpc EXCEPT ![c] =
                                      IF BadEnvelopeReply(v) = NoMsg THEN "read" ELSE "reply"]
                  /\ UNCHANGED <<send, panicked, jobVars>>
             ELSE /\ HandleMessage(in, c)
                  /\ rpc' = [rpc EXCEPT ![c] = AfterHandler(in, HandlerError(in)).pc]
                  /\ rmsg' = [rmsg EXCEPT ![c] = AfterHandler(in, HandlerError(in)).msg]
    /\ UNCHANGED <<hubClients, wsUp, sendClosed, wpc, delivered>>
    /\ UNCHANGED extVars

\* whether "c.send <- errMsg" can proceed: a blocking send waits for room
ReplyCanProceed(c) == sendClosed[c] \/ ~QueueFull(send[c])

\* readPump: c.send <- errMsg
ReadPumpReply(c) ==
    /\ ~panicked
    /\ rpc[c] = "reply"
    /\ ReplyCanProceed(c)
    /\ IF sendClosed[c]
       THEN panicked' = TRUE /\ UNCHANGED <<send, rpc, rmsg>>
       ELSE /\ send' = [send EXCEPT ![c] = Enqueue(@, rmsg[c])]
            /\ rpc' = [rpc EXCEPT ![c] = "read"]
            /\ rmsg' = [rmsg EXCEPT ![c] = NoMsg]
            /\ UNCHANGED panicked
    /\ UNCHANGED <<hubClients, wsUp, sendClosed, wpc, cur, nread, delivered, jobVars>>
    /\ UNCHANGED extVars

\* readPump: ReadMessage fails, the loop breaks into the deferred disconnect
ReadPumpError(c) ==
    /\ ~panicked
    /\ rpc[c] = "read"
    /\ ~wsUp[c]
    /\ rpc' = [rpc EXCEPT ![c] = "disconnect"]
    /\ UNCHANGED <<hubClients, wsUp, send, sendClosed, rmsg, wpc, cur, nread, histVars, jobVars, panicked>>
    /\ UNCHANGED extVars

\* (variant: an unregister case that closes the queue and keeps the entry)
UnregisterKeepsEntry(c) ==
    [clients |-> hubClients, closed |-> TRUE]

\* Hub.run, case unregister: a registered connection is deleted and its send
\* queue closed; for any other nothing is done
Unregister(c) ==
    IF c \in hubClients
    THEN [clients |-> hubClients \ {c}, closed |-> TRUE]
    ELSE [clients |-> hubClients, closed |-> sendClosed[c]]

\* Hub.run, case unregister, meeting readPump's disconnect(c); then c.ws.Close()
HubUnregister(c) ==
    /\ ~panicked
    /\ rpc[c] = "disconnect"
    /\ hubClients' = Unregister(c).clients
    /\ sendClosed' = [sendClosed EXCEPT ![c] = Unregister(c).closed]
    /\ rpc' = [rpc EXCEPT ![c] = "done"]
    /\ wsUp' = [wsUp EXCEPT ![c] = FALSE]
    /\ UNCHANGED <<send, rmsg, wpc, cur, nread, histVars, jobVars, panicked>>
    /\ UNCHANGED extVars

\* the client's view of a job: the frames carrying its build_id, as written
Deliver(d, m) == IF m.build \in Builds THEN [d EXCEPT ![m.build] = Append(@, m)] ELSE d

\* (variant: a receive that takes the newest message of the queue)
ReceiveNewest(q) == [msg |-> q[Len(q)], rest |-> SubSeq(q, 1, Len(q) - 1)]

\* message, ok := <-c.send with a message buffered: the oldest one is taken
Receive(q) == [msg |-> Head(q), rest |-> Tail(q)]

\* writePump: a message received from c.send is written, or the write fails
WritePumpSend(c) ==
    /\ ~panicked
    /\ wpc[c] = "run"
    /\ send[c] # <<>>
    /\ send' = [send EXCEPT ![c] = Receive(@).rest]
    /\ IF wsUp[c]
       THEN /\ delivered' = Deliver(delivered, Receive(send[c]).msg)
            /\ wpc' = wpc
       ELSE /\ delivered' = delivered
            /\ wpc' = [wpc EXCEPT ![c] = "done"]
    /\ UNCHANGED <<hubClients, wsUp, sendClosed, rpc, rmsg, cur, nread, jobVars, panicked>>
    /\ UNCHANGED extVars

\* writePump: the channel is closed and drained: close frame, return, ws.Close()
WritePumpClosed(c) ==
    /\ ~panicked
    /\ wpc[c] = "run"
    /\ send[c] = <<>>
    /\ sendClosed[c]
    /\ wpc' = [wpc EXCEPT ![c] = "done"]
    /\ wsUp' = [wsUp EXCEPT ![c] = FALSE]
    /\ UNCHANGED <<hubClients, send, sendClosed, rpc, rmsg, cur, nread, histVars, jobVars, panicked>>
    /\ UNCHANGED extVars

\* writePump: the ticker fires and the ping cannot be written
WritePumpPing(c) ==
    /\ ~panicked
    /\ wpc[c] = "run"
    /\ ~wsUp[c]
    /\ wpc' = [wpc EXCEPT ![c] = "done"]
    /\ UNCHANGED <<hubClients, wsUp, send, sendClosed, rpc, rmsg, cur, nread, histVars, jobVars, panicked>>
    /\ UNCHANGED extVars


\* ------------------------------------------------------------- job notifier
NoCall == [kind |-> "none"]

Call(kind, status, n) ==
    [kind |-> kind, status |-> status, conn |-> NoConn, step |-> "get", n |-> n]

\* (variant: a log chunk whose payload does not name the build)
LogChunkNoBuild(b, call) ==
    [NewMessage(EvtLogChunk, NoRid) EXCEPT !.n = call.n]

LogChunk(b, call) ==
    [NewMessage(EvtLogChunk, NoRid) EXCEPT !.build = b, !.n = call.n]

BuildStatus(b, call) ==
    [NewMessage(EvtBuildStatus, NoRid) EXCEPT !.build = b, !.status = call.status, !.n = call.n]

NotifyMsg(b, call) ==
    IF call.kind = "log" THEN LogChunk(b, call) ELSE BuildStatus(b, call)

\* whether NotifyStatus goes on to unregisterBuild after its send
UnregistersAfterSend(call) == call.kind = "status" /\ IsTerminal(call.status)

\* NotifyLog / NotifyStatus: clientConn := getClientForBuild(buildID).  With no
\* client NotifyLog returns; NotifyStatus calls unregisterBuild and returns.
NotifyGet(b, t) ==
    /\ ~panicked
    /\ calls[b][t] # NoCall
    /\ calls[b][t].step = "get"
    /\ IF buildToClient[b] = NoConn
       THEN calls' = [calls EXCEPT ![b][t] = NoCall]
       ELSE calls' = [calls EXCEPT ![b][t].conn = buildToClient[b], ![b][t].step = "send"]
    /\ UNCHANGED <<connVars, histVars, nextBuild, buildToClient, origin, jpc,
                   jfinal, produced, panicked>>
    /\ UNCHANGED extVars

\* NotifyLog / NotifyStatus: clientConn.sendMsg(msg)
NotifySend(b, t) ==
    /\ ~panicked
    /\ calls[b][t] # NoCall
    /\ calls[b][t].step = "send"
    /\ SendMsg(calls[b][t].conn, NotifyMsg(b, calls[b][t]))
    /\ calls' = [calls EXCEPT ![b][t] =
                    IF UnregistersAfterSend(@) THEN [@ EXCEPT !.step = "unreg"] ELSE NoCall]
    /\ UNCHANGED <<hubClients, wsUp, sendClosed, rpc, rmsg, wpc, cur, nread, delivered,
                   nextBuild, buildToClient, origin, jpc, jfinal, produced>>
    /\ UNCHANGED extVars

\* NotifyStatus on a terminal status: unregisterBuild(buildID)
NotifyUnregister(b, t) ==
    /\ ~panicked
    /\ calls[b][t] # NoCall
    /\ calls[b][t].step = "unreg"
    /\ buildToClient' = [buildToClient EXCEPT ![b] = NoConn]
    /\ calls' = [calls EXCEPT ![b][t] = NoCall]
    /\ UNCHANGED <<connVars, histVars, nextBuild, origin, jpc, jfinal, produced,
                   panicked>>
    /\ UNCHANGED extVars

\* ------------------------------------------------------------- job task
\* the notifications of runBuildLogic's straight path, in program order
\* (a Dockerfile build of one codebase, no secrets)
RunScript ==
    << [kind |-> "log", status |-> ""],
       [kind |-> "status", status |-> "starting"],
       [kind |-> "log", status |-> ""],
       [kind |-> "status", status |-> "preparing_env"],
       [kind |-> "log", status |-> ""],
       [kind |-> "log", status |-> ""],
       [kind |-> "status", status |-> "downloading_resources"],
       [kind |-> "log", status |-> ""],
       [kind |-> "status", status |-> "fetching_codebases"],
       [kind |-> "log", status |-> ""],
       [kind |-> "log", status |-> ""],
       [kind |-> "status", status |-> "building_image"],
       [kind |-> "log", status |-> ""],
       [kind |-> "log", status |-> ""],
       [kind |-> "log", status |-> ""],
       [kind |-> "status", status |-> "saving_artifacts"],
       [kind |-> "log", status |-> ""],
       [kind |-> "log", status |-> ""],
       [kind |-> "log", status |-> ""],
       [kind |-> "log", status |-> ""] >>

\* the part of the script a job runs here
ScriptLen == IF MaxEvents < Len(RunScript) THEN MaxEvents ELSE Len(RunScript)

\* the first return of runBuildLogic (the build directory cannot be made)
\* follows the second notification; every later phase can fail too
FirstReturn == 2

\* the cleanup defer is registered once the build directory exists; the next
\* notification follows with no return in between
CleanupRegistered(n) == n > FirstReturn

\* the goroutine of handleMessage calls StartBuildAsync: a spec that loads
\* starts runBuildLogic; one that does not makes StartBuildAsync spawn
\* NotifyStatus("failure") and return the error, on which the caller calls
\* NotifyStatus("failure") itself
StartBuildAsync(b) ==
    /\ ~panicked
    /\ jpc[b] = "start"
    /\ IF SpecLoads(origin[b].spec)
       THEN /\ jpc' = [jpc EXCEPT ![b] = "run"]
            /\ calls' = calls
       ELSE /\ jpc' = [jpc EXCEPT ![b] = "reject"]
            /\ calls' = [calls EXCEPT ![b] = [main |-> Call("status", "failure", 1),
                                             aux |-> Call("status", "failure", 1)]]
    /\ UNCHANGED <<connVars, histVars, nextBuild, buildToClient, origin, jfinal,
                   produced, panicked>>
    /\ UNCHANGED extVars

\* runBuildLogic: the next notification of the script
JobEmit(b) ==
    /\ ~panicked
    /\ jpc[b] = "run"
    /\ calls[b].main = NoCall
    /\ produced[b] < ScriptLen
    /\ produced' = [produced EXCEPT ![b] = @ + 1]
    /\ calls' = [calls EXCEPT ![b].main =
                    Call(RunScript[produced[b] + 1].kind, RunScript[produced[b] + 1].status,
                         produced[b] + 1)]
    /\ UNCHANGED <<connVars, histVars, nextBuild, buildToClient, origin, jpc, jfinal,
                   panicked>>
    /\ UNCHANGED extVars

\* runBuildLogic returns, with finalStatus "failure" where a phase fails and
\* "success" at the end of the script: the deferred functions run, last
\* registered first; the cleanup logs nothing (quiet) after a success with
\* shouldCleanup false, the local output without a local_path
JobReturn(b) ==
    /\ ~panicked
    /\ jpc[b] = "run"
    /\ calls[b].main = NoCall
    /\ produced[b] >= FirstReturn
    /\ \E st \in {"success", "failure"}, quiet \in BOOLEAN :
          /\ st = "success" => produced[b] = ScriptLen
          /\ quiet => st = "success"
          /\ jfinal' = [jfinal EXCEPT ![b] = st]
          /\ jpc' = [jpc EXCEPT ![b] =
                        IF CleanupRegistered(produced[b]) /\ ~quiet THEN "cleanup" ELSE "finish"]
    /\ UNCHANGED <<connVars, histVars, nextBuild, buildToClient, origin, produced, calls,
                   panicked>>
    /\ UNCHANGED extVars

\* a deferred function logs: the cleanup defer ("Cleaning up"/"Keeping build
\* directory"), then the status defer ("Build finished with status")
JobDeferLog(b) ==
    /\ ~panicked
    /\ jpc[b] \in {"cleanup", "finish"}
    /\ calls[b].main = NoCall
    /\ jpc' = [jpc EXCEPT ![b] = IF @ = "cleanup" THEN "finish" ELSE "status"]
    /\ produced' = [produced EXCEPT ![b] = @ + 1]
    /\ calls' = [calls EXCEPT ![b].main = Call("log", "", produced[b] + 1)]
    /\ UNCHANGED <<connVars, histVars, nextBuild, buildToClient, origin, jfinal, panicked>>
    /\ UNCHANGED extVars

\* the status defer: notifier.NotifyStatus(buildID, finalStatus, ...)
JobFinalStatus(b) ==
    /\ ~panicked
    /\ jpc[b] = "status"
    /\ calls[b].main = NoCall
    /\ jpc' = [jpc EXCEPT ![b] = "final"]
    /\ produced' = [produced EXCEPT ![b] = @ + 1]
    /\ calls' = [calls EXCEPT ![b].main = Call("status", jfinal[b], produced[b] + 1)]
    /\ UNCHANGED <<connVars, histVars, nextBuild, buildToClient, origin, jfinal, panicked>>
    /\ UNCHANGED extVars

\* ------------------------------------------------------------- client
\* Client.SendRequest, what it returns for the response it was handed
SendRequestResult(resp) ==
    IF resp.error # "" \/ resp.type = EvtError
    THEN [ok |-> FALSE,
          err |-> <<"server error response for request", resp.rid,
                    IF resp.error = "" THEN "received error event" ELSE resp.error>>
                  \o resp.details]
    ELSE [ok |-> TRUE, err |-> <<>>]

\* ------------------------------------------------------------- properties
Terminal(m) == m.type = EvtBuildStatus /\ IsTerminal(m.status)

JobEvent(m) == m.type \in {EvtLogChunk, EvtBuildStatus}

OfBuild(b, q) == SelectSeq(q, LAMBDA m : m.build = b)

\* what the connection has been and will be sent for build b: the frames
\* written, then those of the build still in the send queue
JobStream(b) ==
    IF origin[b].conn = NoConn THEN <<>>
    ELSE delivered[b] \o OfBuild(b, send[origin[b].conn])

\* readPump on connection c reads its next frame in this step
Reads(c) == nread' = nread + 1 /\ cur'[c].rid = nread'

\* this step puts exactly m at the tail of c's send queue
Enqueues(c, m) == send'[c] = Append(send[c], m)

\* ------------------------------------------------------------- paths
\* a path: absolute or not, and its cleaned elements
Path(abs, elems) == [abs |-> abs, elems |-> elems]

\* the empty string as a path
NoPath == Path(FALSE, <<>>)

\* filepath.Clean on the elements of a path: "" and "." vanish, ".." removes the
\* element before it, stays in front of a relative path, vanishes at the root
RECURSIVE CleanElems(_, _, _)
CleanElems(abs, acc, rest) ==
    IF rest = <<>> THEN acc
    ELSE LET e == Head(rest) IN
         IF e = "" \/ e = "." THEN CleanElems(abs, acc, Tail(rest))
         ELSE IF e = ".."
         THEN IF acc # <<>> /\ acc[Len(acc)] # ".."
              THEN CleanElems(abs, SubSeq(acc, 1, Len(acc) - 1), Tail(rest))
              ELSE IF abs THEN CleanElems(abs, acc, Tail(rest))
              ELSE CleanElems(abs, Append(acc, ".."), Tail(rest))
         ELSE CleanElems(abs, Append(acc, e), Tail(rest))

\* filepath.Clean
Clean(p) == Path(p.abs, CleanElems(p.abs, <<>>, p.elems))

\* filepath.Join(base, name): the strings are joined with a separator and the
\* result is cleaned, so a leading separator of name is lost
Join(base, name) ==
    IF base = NoPath THEN Clean(name)
    ELSE Clean(Path(base.abs, base.elems \o name.elems))

\* filepath.IsAbs
IsAbs(p) == p.abs

\* ------------------------------------------------------------- build specification
\* the two job bodies: runBuildLogic (socket.go) and Build (part_002)
Impls == {"runBuildLogic", "Build"}

\* the build specifications a client can send
BuildSpecs ==
    [Name : {"", "demo"},
     Version : {"", "1"},
     Codebases : {{}, {"app"}},
     BuildSteps : {<<>>, <<"app">>, <<"ghost">>},
     Dockerfile : {"", "Dockerfile"},
     ComposeFile : {"", "compose.yml"},
     Tags : {<<>>, <<"demo:1">>},
     OutputTarget : {"", "local", "b2", "registry"},
     LocalPath : {NoPath, Path(TRUE, <<"out">>), Path(FALSE, <<"out">>)},
     Secrets : BOOLEAN,
     Generate : BOOLEAN]

\* the defaults set before unmarshalling: a document without output_target
\* keeps "docker"
WithDefaults(s) == IF s.OutputTarget = "" THEN [s EXCEPT !.OutputTarget = "docker"] ELSE s

\* (variant: a validation that looks at the name and the version only)
ValidationErrorNameOnly(s) ==
    IF s.Name = "" \/ s.Version = ""
    THEN "the fields 'name' and 'version' are required in the specification"
    ELSE ""

\* the "Basic Validation" of LoadBuildSpecFromBytes: the error, "" for nil
ValidationError(s) ==
    IF s.Name = "" \/ s.Version = ""
    THEN "the fields 'name' and 'version' are required in the specification"
    ELSE IF s.Codebases = {} /\ s.BuildSteps = <<>> /\ s.Dockerfile = "" /\ s.ComposeFile = ""
    THEN "no codebase, build_step, dockerfile or compose_file specified"
    ELSE IF s.Dockerfile # "" /\ s.ComposeFile # ""
    THEN "don't specify 'dockerfile' et 'compose_file' in the build_config"
    ELSE ""

\* LoadBuildSpecFromBytes on a document that parses
LoadBuildSpecFromBytes(s) == [spec |-> WithDefaults(s), err |-> ValidationError(WithDefaults(s))]

\* ------------------------------------------------------------- job body
\* s.workDir and the job's directory filepath.Join(s.workDir, buildID)
WorkDir == Path(TRUE, <<"work">>)
BuildDir == Join(WorkDir, Path(FALSE, <<"b1">>))

\* the image id the engine reports for a finished build
ImageID == "4f1e"

\* panics: of sendMsg on a closed channel, of a library called by a phase
ClosedChannelPanic == "send on closed channel"
LibraryPanic == "runtime error"
ClosedTwicePanic == "close of closed channel"
NilDereference == "invalid memory address or nil pointer dereference"

\* the artifact references a status can carry, by what the string was made from:
\* nothing, an image tag, an image id, a file path, an object-store location
NoRef == [kind |-> "empty", path |-> NoPath, text |-> ""]
TagRef(tag) == [kind |-> "tag", path |-> NoPath, text |-> tag]
IdRef(id) == [kind |-> "id", path |-> NoPath, text |-> id]
FileRef(p) == [kind |-> "file", path |-> p, text |-> ""]
ObjectRef(url) == [kind |-> "object", path |-> NoPath, text |-> url]

\* BuildStatusPayload as NotifyStatus fills it
StatusPayload(status, artifact, err) ==
    [status |-> status, artifact_ref |-> artifact, message |-> err]

\* StartBuildAsync / the caller of Build: the specification is loaded, and the
\* job body starts only for a specification the loader returns
LoadSpec ==
    /\ lpc = "load"
    /\ bspec' = LoadBuildSpecFromBytes(bspec).spec
    /\ IF LoadBuildSpecFromBytes(bspec).err # ""
       THEN /\ lpc' = "rejected"
            /\ buildErr' = LoadBuildSpecFromBytes(bspec).err
            /\ finalStatus' = "failure"
            /\ errors' = Append(errors, LoadBuildSpecFromBytes(bspec).err)
       ELSE /\ lpc' = "start"
            /\ UNCHANGED <<buildErr, finalStatus, errors>>
    /\ UNCHANGED <<impl, artifactRef, shouldCleanup, deferred, dirExists, phases,
                   statuses, chanClosed, panicking, crashed>>
    /\ UNCHANGED notBody

\* the Hub closes the client's send channel while the job is still mapped to it
ConnVanish ==
    /\ impl = "runBuildLogic"
    /\ lpc \notin {"load", "rejected", "done"}
    /\ ~chanClosed /\ ~crashed
    /\ chanClosed' = TRUE
    /\ UNCHANGED <<impl, bspec, lpc, buildErr, finalStatus, artifactRef, shouldCleanup,
                   deferred, dirExists, phases, statuses, panicking, crashed, errors>>
    /\ UNCHANGED notBody

\* a phase of runBuildLogic at position pc; its first notification panics when
\* the channel is closed
RunPhaseBody(pc, name) ==
    /\ impl = "runBuildLogic"
    /\ lpc = pc
    /\ ~crashed
    /\ phases' = Append(phases, name)
    /\ UNCHANGED <<impl, bspec, chanClosed, crashed>>

\* a phase that leaves the engine's image store as it is
RunPhase(pc, name) ==
    /\ RunPhaseBody(pc, name)
    /\ UNCHANGED notBody

\* the phase panics: the deferred functions run next
Unwind(reason) ==
    /\ panicking' = reason
    /\ lpc' = "defers"
    /\ UNCHANGED errors

\* the phase sets buildErr and finalStatus and returns
Fail(err) ==
    /\ buildErr' = err
    /\ finalStatus' = "failure"
    /\ lpc' = "defers"
    /\ panicking' = panicking
    /\ errors' = Append(errors, err)

\* the phase completes and the body goes on at position pc
GoOn(pc) ==
    /\ lpc' = pc
    /\ UNCHANGED <<buildErr, finalStatus, panicking, errors>>

\* lines 121-122: first log line, status "starting"
RunStart ==
    /\ RunPhase("start", "start")
    /\ IF chanClosed
       THEN Unwind(ClosedChannelPanic) /\ UNCHANGED <<statuses, buildErr, finalStatus>>
       ELSE /\ statuses' = Append(statuses, StatusPayload("starting", NoRef, ""))
            /\ GoOn("mkdir")
    /\ deferred' = <<"status">>
    /\ UNCHANGED <<artifactRef, shouldCleanup, dirExists>>

\* lines 138-157: the build directory is made, the cleanup is deferred
RunMkdir ==
    /\ RunPhase("mkdir", "setup")
    /\ \E ok \in BOOLEAN :
          IF ok
          THEN /\ dirExists' = TRUE
               /\ shouldCleanup' = TRUE
               /\ deferred' = Append(deferred, "cleanup")
               /\ GoOn("prepare")
          ELSE /\ Fail("cannot create build directory")
               /\ UNCHANGED <<dirExists, shouldCleanup, deferred>>
    /\ UNCHANGED <<artifactRef, statuses>>

\* lines 158-170: status "preparing_env", environment variables merged
RunPrepare ==
    /\ RunPhase("prepare", "preparing_env")
    /\ IF chanClosed
       THEN Unwind(ClosedChannelPanic) /\ UNCHANGED <<statuses, buildErr, finalStatus>>
       ELSE /\ statuses' = Append(statuses, StatusPayload("preparing_env", NoRef, ""))
            /\ GoOn("secrets")
    /\ UNCHANGED <<artifactRef, shouldCleanup, deferred, dirExists>>

\* lines 173-193: secrets are fetched when a fetcher is set and the spec has some
RunSecrets ==
    /\ lpc = "secrets"
    /\ \E fetcher \in BOOLEAN, ok \in BOOLEAN :
          IF fetcher /\ bspec.Secrets
          THEN /\ RunPhase("secrets", "fetching_secrets")
               /\ IF chanClosed
                  THEN Unwind(ClosedChannelPanic) /\ UNCHANGED <<statuses, buildErr, finalStatus>>
                  ELSE /\ statuses' = Append(statuses, StatusPayload("fetching_secrets", NoRef, ""))
                       /\ IF ok THEN GoOn("resources") ELSE Fail("failed to fetch secret")
          ELSE /\ impl = "runBuildLogic"
               /\ ~crashed
               /\ GoOn("resources")
               /\ UNCHANGED <<impl, bspec, chanClosed, crashed, phases, statuses>>
               /\ UNCHANGED notBody
    /\ UNCHANGED <<artifactRef, shouldCleanup, deferred, dirExists>>

\* lines 196-200: status "downloading_resources"; nothing is downloaded
RunResources ==
    /\ RunPhase("resources", "downloading_resources")
    /\ IF chanClosed
       THEN Unwind(ClosedChannelPanic) /\ UNCHANGED <<statuses, buildErr, finalStatus>>
       ELSE /\ statuses' = Append(statuses, StatusPayload("downloading_resources", NoRef, ""))
            /\ GoOn("codebases")
    /\ UNCHANGED <<artifactRef, shouldCleanup, deferred, dirExists>>

\* lines 203-217: status "fetching_codebases", every codebase is fetched
RunCodebases ==
    /\ RunPhase("codebases", "fetching_codebases")
    /\ IF chanClosed
       THEN Unwind(ClosedChannelPanic) /\ UNCHANGED <<statuses, buildErr, finalStatus>>
       ELSE /\ statuses' = Append(statuses, StatusPayload("fetching_codebases", NoRef, ""))
            /\ IF bspec.Codebases = {}
               THEN GoOn("build")
               ELSE \E out \in {"ok", "err", "panic"} :
                       CASE out = "ok" -> GoOn("build")
                         [] out = "err" -> Fail("failed to fetch codebase")
                         [] out = "panic" -> Unwind(LibraryPanic) /\ UNCHANGED <<buildErr, finalStatus>>
    /\ UNCHANGED <<artifactRef, shouldCleanup, deferred, dirExists>>

\* lines 224-264: status "building_image"; a compose file is refused, else the
\* Dockerfile is located and the image is built, under the tags of the
\* specification (line 393)
RunBuild ==
    /\ RunPhaseBody("build", "building_image")
    /\ IF chanClosed
       THEN /\ Unwind(ClosedChannelPanic)
            /\ UNCHANGED <<statuses, buildErr, finalStatus, engineImages>>
       ELSE /\ statuses' = Append(statuses, StatusPayload("building_image", NoRef, ""))
            /\ IF bspec.ComposeFile # ""
               THEN /\ Fail("compose build via socket not fully adapted yet")
                    /\ UNCHANGED engineImages
               ELSE \E out \in {"ok", "nofile", "err", "panic"} :
                       /\ engineImages' =
                             IF out = "ok"
                             THEN engineImages \cup {ImageID}
                                    \cup {bspec.Tags[i] : i \in 1..Len(bspec.Tags)}
                             ELSE engineImages
                       /\ CASE out = "ok" -> GoOn("save")
                            [] out = "nofile" -> Fail("no Dockerfile specified or found")
                            [] out = "err" -> Fail("docker build failed")
                            [] out = "panic" -> Unwind(LibraryPanic) /\ UNCHANGED <<buildErr, finalStatus>>
    /\ UNCHANGED <<artifactRef, shouldCleanup, deferred, dirExists>>
    /\ UNCHANGED <<storage, fileEnv, specEnv, runtimeSecrets, project, pending, buildErrors,
                   result, finalImageTags, disk, runYAML>>
    /\ UNCHANGED <<sockVars, extractVars, stepVars, gitVars, imgVars, clVars>>

\* lines 274-279: outputBasePath
OutputBasePath(s) ==
    IF s.OutputTarget = "local" /\ s.LocalPath # NoPath THEN s.LocalPath ELSE BuildDir

\* line 286: the exported tar of the main service
LocalImagePath(s) ==
    Join(OutputBasePath(s), Path(FALSE, <<"demo_demo.tar">>))

\* line 271: finalImageTags is made empty and never filled
FinalImageTags(s) == <<>>

\* lines 282-319: the switch on OutputTarget, for a build that produced an
\* image; "docker" is a case of its own with an empty body
ArtifactRefOf(s) ==
    CASE s.OutputTarget = "b2" -> ObjectRef("b2://not/implemented/yet")
      [] s.OutputTarget = "local" -> FileRef(LocalImagePath(s))
      [] s.OutputTarget = "docker" -> NoRef
      [] OTHER -> IF FinalImageTags(s) # <<>> THEN TagRef(FinalImageTags(s)[1])
                  ELSE IdRef(ImageID)

\* lines 267-320: status "saving_artifacts", the output target is served
RunSave ==
    /\ RunPhase("save", "saving_artifacts")
    /\ IF chanClosed
       THEN /\ Unwind(ClosedChannelPanic)
            /\ UNCHANGED <<statuses, buildErr, finalStatus, artifactRef, shouldCleanup>>
       ELSE /\ statuses' = Append(statuses, StatusPayload("saving_artifacts", NoRef, ""))
            /\ IF bspec.OutputTarget = "local"
               THEN \E out \in {"ok", "err", "panic"} :
                       CASE out = "ok" ->
                                /\ artifactRef' = ArtifactRefOf(bspec)
                                /\ shouldCleanup' = (bspec.LocalPath # NoPath)
                                /\ GoOn("manifest")
                         [] out = "err" ->
                                /\ Fail("failed to save image locally")
                                /\ UNCHANGED <<artifactRef, shouldCleanup>>
                         [] out = "panic" ->
                                /\ Unwind(LibraryPanic)
                                /\ UNCHANGED <<buildErr, finalStatus, artifactRef, shouldCleanup>>
               ELSE /\ artifactRef' = ArtifactRefOf(bspec)
                    /\ GoOn("manifest")
                    /\ UNCHANGED shouldCleanup
    /\ UNCHANGED <<deferred, dirExists>>

\* lines 323-334: the run file is announced when asked for; last log line
RunManifest ==
    /\ lpc = "manifest"
    /\ IF bspec.Generate
       THEN RunPhase("manifest", "generating_manifest")
       ELSE RunPhase("manifest", "finish")
    /\ IF chanClosed
       THEN Unwind(ClosedChannelPanic) /\ UNCHANGED <<buildErr, finalStatus>>
       ELSE GoOn("defers")
    /\ UNCHANGED <<artifactRef, shouldCleanup, deferred, dirExists, statuses>>

\* lines 146-157, the deferred cleanup: which log line it prints, "" for none,
\* and whether os.RemoveAll follows
CleanupLine(s, should, err) ==
    IF should /\ err = ""
    THEN IF ~(s.OutputTarget = "local" /\ s.LocalPath = NoPath)
         THEN "Cleaning up build directory"
         ELSE "Keeping build directory for local output"
    ELSE IF err # "" THEN "Keeping build directory due to error" ELSE ""

\* the deferred cleanup runs, on return or while a panic unwinds
RunCleanupDefer ==
    /\ impl = "runBuildLogic"
    /\ lpc = "defers"
    /\ ~crashed
    /\ deferred # <<>> /\ deferred[Len(deferred)] = "cleanup"
    /\ deferred' = SubSeq(deferred, 1, Len(deferred) - 1)
    /\ IF CleanupLine(bspec, shouldCleanup, buildErr) # "" /\ chanClosed
       THEN /\ panicking' = ClosedChannelPanic
            /\ UNCHANGED dirExists
       ELSE /\ dirExists' = (dirExists /\
                             CleanupLine(bspec, shouldCleanup, buildErr) # "Cleaning up build directory")
            /\ UNCHANGED panicking
    /\ UNCHANGED <<impl, bspec, lpc, buildErr, finalStatus, artifactRef, shouldCleanup,
                   phases, statuses, chanClosed, crashed, errors>>
    /\ UNCHANGED notBody

\* lines 108-117, the deferred function registered first: recover, last log
\* line, final NotifyStatus; a panic raised in it leaves the goroutine
RunStatusDefer ==
    /\ impl = "runBuildLogic"
    /\ lpc = "defers"
    /\ ~crashed
    /\ deferred # <<>> /\ deferred[Len(deferred)] = "status"
    /\ deferred' = SubSeq(deferred, 1, Len(deferred) - 1)
    /\ IF chanClosed
       THEN /\ crashed' = TRUE
            /\ panicking' = ClosedChannelPanic
            /\ lpc' = "dead"
            /\ UNCHANGED <<buildErr, finalStatus, statuses>>
       ELSE /\ buildErr' = IF panicking # "" THEN "panic during build" ELSE buildErr
            /\ finalStatus' = IF panicking # "" THEN "failure" ELSE finalStatus
            /\ statuses' = Append(statuses, StatusPayload(finalStatus', artifactRef, buildErr'))
            /\ panicking' = ""
            /\ lpc' = "done"
            /\ UNCHANGED crashed
    /\ UNCHANGED <<impl, bspec, artifactRef, shouldCleanup, dirExists, phases, chanClosed, errors>>
    /\ UNCHANGED notBody

\* ------------------------------------------------------------- job body: Build
\* a phase of Build at position pc
BuildPhase(pc, name) ==
    /\ impl = "Build"
    /\ lpc = pc
    /\ ~crashed
    /\ phases' = Append(phases, name)
    /\ UNCHANGED <<impl, bspec, chanClosed, crashed, statuses, artifactRef>>
    /\ UNCHANGED notBody

\* an operation fails, Build writes a warning to the logs and goes on
Warn(err, pc) ==
    /\ errors' = Append(errors, err)
    /\ lpc' = pc
    /\ UNCHANGED <<buildErr, finalStatus, panicking>>

\* part_002 230-264: the mutex is taken, the build directory is made, its
\* removal is deferred unless the output is local without a path
BuildSetup ==
    /\ BuildPhase("start", "setup")
    /\ \E ok \in BOOLEAN :
          IF ok
          THEN /\ dirExists' = TRUE
               /\ shouldCleanup' = ~(bspec.OutputTarget = "local" /\ bspec.LocalPath = NoPath)
               /\ deferred' = IF shouldCleanup' THEN <<"unlock", "remove">> ELSE <<"unlock">>
               /\ GoOn("secrets")
          ELSE /\ Fail("cannot create the build dir")
               /\ deferred' = <<"unlock">>
               /\ UNCHANGED <<dirExists, shouldCleanup>>

\* part_002 266-323: environment files that cannot be read are warnings, a
\* secret that cannot be fetched is an error
BuildSecrets ==
    /\ BuildPhase("secrets", "fetching_secrets")
    /\ \E envfile \in BOOLEAN, fetcher \in BOOLEAN, ok \in BOOLEAN :
          IF fetcher /\ bspec.Secrets /\ ~ok
          THEN Fail("error during the secret creation")
          ELSE IF envfile
               THEN Warn("Warning: cannot read env file", "resources")
               ELSE GoOn("resources")
    /\ UNCHANGED <<shouldCleanup, deferred, dirExists>>

\* part_002 325-364: resources are downloaded and extracted
BuildResources ==
    /\ BuildPhase("resources", "downloading_resources")
    /\ \E out \in {"ok", "err"} :
          IF out = "ok" THEN GoOn("codebases") ELSE Fail("error during the resource download")
    /\ UNCHANGED <<shouldCleanup, deferred, dirExists>>

\* part_002 366-388: every codebase is fetched into the build directory
BuildCodebases ==
    /\ BuildPhase("codebases", "fetching_codebases")
    /\ IF bspec.Codebases = {}
       THEN GoOn("steps")
       ELSE \E out \in {"ok", "err", "panic"} :
               CASE out = "ok" -> GoOn("steps")
                 [] out = "err" -> Fail("error during the codebase fetching")
                 [] out = "panic" -> Unwind(LibraryPanic) /\ UNCHANGED <<buildErr, finalStatus>>
    /\ UNCHANGED <<shouldCleanup, deferred, dirExists>>

\* part_002 393-402: the codebase a build step names is looked up in the map
\* of the codebases fetched in the phase before
StepCodebaseKnown(s) == \A i \in 1..Len(s.BuildSteps) : s.BuildSteps[i] \in s.Codebases

\* part_002 390-495: the build steps run in order
BuildStepsPhase ==
    /\ BuildPhase("steps", "running_steps")
    /\ IF ~StepCodebaseKnown(bspec)
       THEN Fail("build step referencing a non existent codebase")
       ELSE IF bspec.BuildSteps = <<>>
            THEN GoOn("build")
            ELSE \E out \in {"ok", "err"} :
                    IF out = "ok" THEN GoOn("build") ELSE Fail("error during the step build")
    /\ UNCHANGED <<shouldCleanup, deferred, dirExists>>

\* part_002 497-618: the compose project or the single image is built
BuildMain ==
    /\ BuildPhase("build", "building")
    /\ \E out \in {"ok", "err", "panic"} :
          CASE out = "ok" -> GoOn("outputs")
            [] out = "err" -> Fail("error during the main build")
            [] out = "panic" -> Unwind(LibraryPanic) /\ UNCHANGED <<buildErr, finalStatus>>
    /\ UNCHANGED <<shouldCleanup, deferred, dirExists>>

\* part_002 620-723: images are tagged, then saved or uploaded by OutputTarget
BuildOutputs ==
    /\ BuildPhase("outputs", "saving")
    /\ \E b2Config \in BOOLEAN, ok \in BOOLEAN :
          CASE bspec.OutputTarget = "b2" ->
                   IF ~b2Config THEN Fail("OutputTarget is 'b2' but no config is defined")
                   ELSE IF ok THEN GoOn("manifest")
                   ELSE Warn("Warning: Failed to export/upload image to B2", "manifest")
            [] bspec.OutputTarget = "local" ->
                   IF ok THEN GoOn("manifest")
                   ELSE Fail("error during the service image saving locally")
            [] bspec.OutputTarget = "docker" ->
                   IF ok THEN GoOn("manifest")
                   ELSE Warn("Warning: Failed to tag image", "manifest")
            [] OTHER -> Fail("OutputTarget not supported")
    /\ UNCHANGED <<shouldCleanup, deferred, dirExists>>

\* part_002 725-771: the run file is written when asked for; Success = true
BuildManifest ==
    /\ lpc = "manifest"
    /\ IF bspec.Generate
       THEN /\ BuildPhase("manifest", "generating_manifest")
            /\ \E ok \in BOOLEAN :
                  IF ok THEN GoOn("defers")
                  ELSE Warn("Warning: error during the run.yml generating", "defers")
       ELSE /\ BuildPhase("manifest", "finish")
            /\ GoOn("defers")
    /\ UNCHANGED <<shouldCleanup, deferred, dirExists>>

\* the deferred functions of Build, newest first: os.RemoveAll(buildDir), then
\* the unlock; after the last one a panic goes on into the caller
BuildDeferred ==
    /\ impl = "Build"
    /\ lpc = "defers"
    /\ ~crashed
    /\ deferred # <<>>
    /\ deferred' = SubSeq(deferred, 1, Len(deferred) - 1)
    /\ dirExists' = (dirExists /\ deferred[Len(deferred)] # "remove")
    /\ IF Len(deferred) = 1
       THEN /\ lpc' = IF panicking # "" THEN "dead" ELSE "done"
            /\ crashed' = (panicking # "")
       ELSE UNCHANGED <<lpc, crashed>>
    /\ UNCHANGED <<impl, bspec, buildErr, finalStatus, artifactRef, shouldCleanup,
                   phases, statuses, chanClosed, panicking, errors>>
    /\ UNCHANGED notBody

\* ------------------------------------------------------------- archive extraction
\* destDir of an extraction: the codebase's directory below the build directory
DestDir == Join(BuildDir, Path(FALSE, <<"app">>))

\* a directory of the host outside every build directory
HostDir == Path(TRUE, <<"etc">>)

\* (variant: a check that only compares the kind of the two paths)
BeneathAny(target, root) == target.abs = root.abs

\* strings.HasPrefix(target, filepath.Clean(destDir)+"/"): target lies strictly
\* below root
Beneath(target, root) ==
    /\ target.abs = root.abs
    /\ Len(target.elems) > Len(root.elems)
    /\ SubSeq(target.elems, 1, Len(root.elems)) = root.elems

\* filepath.Dir of a cleaned path with at least one element
Dir(p) == Path(p.abs, SubSeq(p.elems, 1, Len(p.elems) - 1))

\* the entry names, types and link targets an archive can hold
EntryNames ==
    {Path(FALSE, <<"a">>), Path(FALSE, <<".">>), Path(FALSE, <<"..", "x">>),
     Path(FALSE, <<"a", "..", "..", "x">>), Path(TRUE, <<"etc", "x">>),
     Path(FALSE, <<"l">>), Path(FALSE, <<"l", "x">>)}
EntryTypes == {"dir", "reg", "symlink", "fifo"}
LinkNames == {HostDir, Path(FALSE, <<"b">>)}

Entries ==
    {e \in [name : EntryNames, type : EntryTypes, linkname : LinkNames \cup {NoPath}] :
        (e.type = "symlink") <=> (e.linkname # NoPath)}

\* the files, directories and links the extraction has created, and the
\* directories that are there before it
FsNode(p, kind, to) == [p |-> p, kind |-> kind, to |-> to]

Ancestors(p) == {Path(p.abs, SubSeq(p.elems, 1, n)) : n \in 0..Len(p.elems)}

PreDirs == Ancestors(DestDir) \cup Ancestors(HostDir)

IsLink(f, p) == \E n \in f : n.p = p /\ n.kind = "link"

LinkTo(f, p) == (CHOOSE n \in f : n.p = p /\ n.kind = "link").to

\* the operating system resolves a path element by element: an element that
\* is a symbolic link is replaced by the link's target
RECURSIVE Walk(_, _, _)
Walk(f, at, rest) ==
    IF rest = <<>> THEN at
    ELSE LET nxt == Path(at.abs, Append(at.elems, Head(rest))) IN
         IF IsLink(f, nxt)
         THEN Walk(f, IF LinkTo(f, nxt).abs THEN LinkTo(f, nxt) ELSE Join(at, LinkTo(f, nxt)),
                   Tail(rest))
         ELSE Walk(f, nxt, Tail(rest))

Real(f, p) == Walk(f, Path(p.abs, <<>>), p.elems)

KindAt(f, p) ==
    IF p \in PreDirs \/ (\E n \in f : n.p = p /\ n.kind = "dir") THEN "dir"
    ELSE IF \E n \in f : n.p = p /\ n.kind = "reg" THEN "reg"
    ELSE "none"

\* os.MkdirAll(p): every missing directory of the resolved path is made; it
\* fails when a file stands in the way
MkdirAll(f, p) ==
    IF \E a \in Ancestors(Real(f, p)) : KindAt(f, a) = "reg"
    THEN [err |-> "mkdir", fs |-> f]
    ELSE [err |-> "",
          fs |-> f \cup {FsNode(a, "dir", NoPath) : a \in
                            {x \in Ancestors(Real(f, p)) : KindAt(f, x) = "none"}}]

\* os.OpenFile(p, O_CREATE|O_TRUNC|O_WRONLY): the file is created or truncated
\* where the path resolves to, links followed
OpenFile(f, p) ==
    IF KindAt(f, Real(f, p)) = "dir" \/ KindAt(f, Dir(Real(f, p))) # "dir"
    THEN [err |-> "open", fs |-> f]
    ELSE [err |-> "", fs |-> f \cup {FsNode(Real(f, p), "reg", NoPath)}]

\* os.Symlink(linkname, p): a link is made in the resolved parent of p; it
\* fails when the parent is missing or the name is taken
Symlink(f, linkname, p) ==
    LET at == Path(Real(f, Dir(p)).abs, Append(Real(f, Dir(p)).elems, p.elems[Len(p.elems)])) IN
    IF KindAt(f, Real(f, Dir(p))) # "dir" \/ KindAt(f, at) # "none" \/ IsLink(f, at)
    THEN [err |-> "symlink", fs |-> f]
    ELSE [err |-> "", fs |-> f \cup {FsNode(at, "link", linkname)}]

\* the path check of extractTar and extractZip on an entry's name
EscapesRoot(e) == ~Beneath(Join(DestDir, e.name), DestDir)

\* extractTar, one turn of its loop on entry e with the file system f
TarEntry(f, e) ==
    LET target == Join(DestDir, e.name) IN
    IF EscapesRoot(e) THEN [err |-> "invalid tar content", fs |-> f]
    ELSE CASE e.type = "dir" -> MkdirAll(f, target)
           [] e.type = "reg" ->
                  IF MkdirAll(f, Dir(target)).err # "" THEN MkdirAll(f, Dir(target))
                  ELSE OpenFile(MkdirAll(f, Dir(target)).fs, target)
           [] e.type = "symlink" -> Symlink(f, e.linkname, target)
           [] OTHER -> [err |-> "", fs |-> f]

\* extractZip, one turn of its loop: an entry is a directory or is written as
\* a file
ZipEntry(f, e) ==
    LET target == Join(DestDir, e.name) IN
    IF EscapesRoot(e) THEN [err |-> "invalid content", fs |-> f]
    ELSE IF e.type = "dir" THEN MkdirAll(f, target)
    ELSE IF MkdirAll(f, Dir(target)).err # "" THEN MkdirAll(f, Dir(target))
    ELSE OpenFile(MkdirAll(f, Dir(target)).fs, target)

\* extractTar: the next entry of the archive
ExtractTarEntry ==
    /\ lpc = "extract"
    /\ format = "tar"
    /\ eerr = ""
    /\ epos <= Len(archive)
    /\ fs' = TarEntry(fs, archive[epos]).fs
    /\ eerr' = TarEntry(fs, archive[epos]).err
    /\ epos' = epos + 1
    /\ UNCHANGED <<format, archive>>
    /\ UNCHANGED <<sockVars, bodyVars, auxVars>>

\* extractZip: the next file of the archive
ExtractZipEntry ==
    /\ lpc = "extract"
    /\ format = "zip"
    /\ eerr = ""
    /\ epos <= Len(archive)
    /\ fs' = ZipEntry(fs, archive[epos]).fs
    /\ eerr' = ZipEntry(fs, archive[epos]).err
    /\ epos' = epos + 1
    /\ UNCHANGED <<format, archive>>
    /\ UNCHANGED <<sockVars, bodyVars, auxVars>>

\* the extraction returns into fetchCodebase and that into the job body, which
\* returns with a failure when it gets an error (part_002 381-387, socket.go
\* 213-217)
FetchCodebaseReturn ==
    /\ lpc = "extract"
    /\ eerr # "" \/ epos > Len(archive)
    /\ IF eerr # ""
       THEN /\ buildErr' = IF impl = "Build" THEN "error during the codebase fetching"
                           ELSE "failed to fetch codebase"
            /\ finalStatus' = "failure"
            /\ errors' = Append(errors, eerr)
            /\ lpc' = "defers"
       ELSE /\ lpc' = IF impl = "Build" THEN "steps" ELSE "build"
            /\ UNCHANGED <<buildErr, finalStatus, errors>>
    /\ UNCHANGED <<impl, bspec, artifactRef, shouldCleanup, deferred, dirExists, phases,
                   statuses, chanClosed, panicking, crashed>>
    /\ UNCHANGED notBody

\* no extraction is running
ExtractIdle ==
    /\ format = "tar"
    /\ archive = <<>>
    /\ epos = 1
    /\ fs = {}
    /\ eerr = ""

\* a job body in its codebase phase, about to extract an archive of at most
\* MaxEntries entries into the codebase's directory
InitExtract ==
    /\ impl \in Impls
    /\ bspec = CHOOSE s \in BuildSpecs : LoadBuildSpecFromBytes(s).err = "" /\ s.Codebases # {}
    /\ lpc = "extract"
    /\ buildErr = ""
    /\ finalStatus = "success"
    /\ artifactRef = NoRef
    /\ shouldCleanup = TRUE
    /\ deferred = IF impl = "Build" THEN <<"unlock", "remove">> ELSE <<"status", "cleanup">>
    /\ dirExists = TRUE
    /\ phases = IF impl = "Build"
                THEN <<"setup", "fetching_secrets", "downloading_resources",
                       "fetching_codebases">>
                ELSE <<"start", "setup", "preparing_env", "downloading_resources",
                       "fetching_codebases">>
    /\ statuses = IF impl = "Build" THEN <<>>
                  ELSE <<StatusPayload("starting", NoRef, ""),
                         StatusPayload("preparing_env", NoRef, ""),
                         StatusPayload("downloading_resources", NoRef, ""),
                         StatusPayload("fetching_codebases", NoRef, "")>>
    /\ chanClosed = FALSE
    /\ panicking = ""
    /\ crashed = FALSE
    /\ errors = <<>>
    /\ format \in {"tar", "zip"}
    /\ archive \in UNION {[1..n -> Entries] : n \in 0..MaxEntries}
    /\ epos = 1
    /\ fs = {}
    /\ eerr = ""

NextExtract ==
    \/ ExtractTarEntry
    \/ ExtractZipEntry
    \/ FetchCodebaseReturn
    \/ ConnVanish
    \/ RunCleanupDefer
    \/ RunStatusDefer
    \/ BuildDeferred

\* ------------------------------------------------------------- build steps
\* the build steps a specification can list (BuildStep of part_003 46-53)
StepNames == {"s1", "s2"}
BuildStepRecords ==
    [Name : StepNames,
     CodebaseName : {"app", "ghost"},
     OutputsBinaryPath : {"", "/bin/tool"},
     UseBinaryFromStep : {""} \cup StepNames,
     BinaryTargetPath : {"", "bin/tool"}]

\* the codebase names of a list of steps: what the job body's specification
\* holds of them
StepCodebases(ss) == [i \in 1..Len(ss) |-> ss[i].CodebaseName]

\* the loop of part_002 393-495 at one of its positions
StepAt(pc) ==
    /\ impl = "Build"
    /\ lpc = "step"
    /\ ~crashed
    /\ stepIdx <= Len(steps)
    /\ stepPc = pc
    /\ UNCHANGED <<impl, bspec, artifactRef, shouldCleanup, deferred, dirExists, phases,
                   statuses, chanClosed, crashed, steps>>
    /\ UNCHANGED besideSteps

\* the step returns an error out of Build
StepFail(err) ==
    /\ Fail(err)
    /\ UNCHANGED <<stepIdx, stepPc>>

\* the loop's body goes on at position pc
StepGoOn(pc) ==
    /\ stepPc' = pc
    /\ UNCHANGED <<lpc, buildErr, finalStatus, panicking, errors, stepIdx>>

\* part_002 395-402: the step's codebase is looked up in codebaseMap
StepLookup ==
    /\ StepAt("lookup")
    /\ IF steps[stepIdx].CodebaseName \in bspec.Codebases
       THEN StepGoOn("inject")
       ELSE StepFail("build step referencing a non existent codebase")
    /\ UNCHANGED <<extractedBinaries, stepsBuilt, injected>>

\* part_002 406-441: the binary of an earlier step is written into the
\* step's codebase
StepInject ==
    /\ StepAt("inject")
    /\ LET step == steps[stepIdx] IN
       IF step.UseBinaryFromStep = ""
       THEN StepGoOn("dockerfile") /\ UNCHANGED injected
       ELSE IF step.UseBinaryFromStep \notin extractedBinaries
       THEN StepFail("build step require a binary for the step, but it's not found")
            /\ UNCHANGED injected
       ELSE IF step.BinaryTargetPath = ""
       THEN StepFail("build step uses a 'binary_target_path' not defined")
            /\ UNCHANGED injected
       ELSE \E ok \in BOOLEAN :
               IF ok
               THEN StepGoOn("dockerfile") /\ injected' = injected \cup {stepIdx}
               ELSE StepFail("error during the binary writing") /\ UNCHANGED injected
    /\ UNCHANGED <<extractedBinaries, stepsBuilt>>

\* part_002 443-453: the step's codebase has to hold a Dockerfile
StepDockerfile ==
    /\ StepAt("dockerfile")
    /\ \E found \in BOOLEAN :
          IF found THEN StepGoOn("build")
          ELSE StepFail("No Dockerfile founded in the build step")
    /\ UNCHANGED <<extractedBinaries, stepsBuilt, injected>>

\* part_002 455-478: buildSingleImage builds the step's image
StepBuild ==
    /\ StepAt("build")
    /\ stepsBuilt' = stepsBuilt \cup {stepIdx}
    /\ \E ok \in BOOLEAN :
          IF ok THEN StepGoOn("extract")
          ELSE StepFail("error during the step build")
    /\ UNCHANGED <<extractedBinaries, injected>>

\* part_002 480-494: the binary the step declares is copied out of a container
\* of its image, and the loop goes to the next step
StepExtract ==
    /\ StepAt("extract")
    /\ LET step == steps[stepIdx] IN
       IF step.OutputsBinaryPath = ""
       THEN /\ stepIdx' = stepIdx + 1
            /\ stepPc' = "lookup"
            /\ UNCHANGED <<lpc, buildErr, finalStatus, panicking, errors, extractedBinaries>>
       ELSE \E ok \in BOOLEAN :
               IF ok
               THEN /\ extractedBinaries' = extractedBinaries \cup {step.Name}
                    /\ stepIdx' = stepIdx + 1
                    /\ stepPc' = "lookup"
                    /\ UNCHANGED <<lpc, buildErr, finalStatus, panicking, errors>>
               ELSE /\ StepFail("erro during the extraction of the binary")
                    /\ UNCHANGED extractedBinaries
    /\ UNCHANGED <<stepsBuilt, injected>>

\* part_002 495-498: the loop is over, the main build starts
StepsEnd ==
    /\ impl = "Build"
    /\ lpc = "step"
    /\ ~crashed
    /\ stepIdx > Len(steps)
    /\ lpc' = "build"
    /\ UNCHANGED <<impl, bspec, buildErr, finalStatus, artifactRef, shouldCleanup, deferred,
                   dirExists, phases, statuses, chanClosed, panicking, crashed, errors>>
    /\ UNCHANGED stepVars
    /\ UNCHANGED besideSteps

\* socket.go 219-221: runBuildLogic has no code for the build steps and goes
\* on to its main build
RunStepsSkipped ==
    /\ impl = "runBuildLogic"
    /\ lpc = "step"
    /\ ~crashed
    /\ lpc' = "build"
    /\ UNCHANGED <<impl, bspec, buildErr, finalStatus, artifactRef, shouldCleanup, deferred,
                   dirExists, phases, statuses, chanClosed, panicking, crashed, errors>>
    /\ UNCHANGED stepVars
    /\ UNCHANGED besideSteps

\* ------------------------------------------------------------- main build, outputs, run file
\* the services a compose file can name
Services == {"web", "api"}

\* a map[string]T: a function on the keys it holds
EmptyMap == [k \in {} |-> ""]
Maps(keys, values) == UNION {[d -> values] : d \in SUBSET keys}

\* (variant: an overlay that keeps the value of the map below)
OverlayKeep(base, over) == base @@ over

\* "for k, v := range over { m[k] = v }" on a copy m of base
Overlay(base, over) == over @@ base

\* a nil *string of a compose environment ("FOO:" without a value)
NilValue == "<nil>"

\* the services of a compose file: with or without a build section, with or
\* without an image, with an environment out of envs
ComposeServices(envs) == [Build : BOOLEAN, Image : {"", "nginx:alpine"}, Environment : envs]

\* the image id the engine reports for a service's image
ServiceImageID(name) == "id-" \o name

\* the BuildResult NewBuildResult-style empty maps start from; RunConfigPath is
\* assigned nowhere in Build
EmptyResult ==
    [ImageID |-> "", ImageIDs |-> EmptyMap, ServiceOutputs |-> EmptyMap,
     LocalImagePaths |-> EmptyMap, RunConfigPath |-> NoPath, B2ObjectNames |-> {}]

\* no run file was written
NoRunYAML == [written |-> FALSE, path |-> NoPath, Services |-> EmptyMap]

\* filepath.Base of a path with at least one element
Base(p) == p.elems[Len(p.elems)]

\* the part of Build between the build steps and its return, at position pc
MainAt(pc) ==
    /\ impl = "Build"
    /\ lpc = pc
    /\ ~crashed
    /\ UNCHANGED <<impl, bspec, artifactRef, shouldCleanup, deferred, dirExists, phases,
                   statuses, chanClosed, crashed>>
    /\ UNCHANGED <<storage, fileEnv, specEnv, runtimeSecrets, project>>
    /\ UNCHANGED besideManifest

\* part_002 500-521: the compose file is read and parsed
ComposeLoad ==
    /\ MainAt("compose")
    /\ \E ok \in BOOLEAN :
          IF ok THEN /\ pending' = DOMAIN project
                     /\ GoOn("services")
          ELSE /\ Fail("error during the compose file reading")
               /\ UNCHANGED pending
    /\ UNCHANGED <<buildErrors, result, finalImageTags, engineImages, disk, runYAML>>

\* part_002 1341-1431, one round of buildComposeProject's loop over the map of
\* services: a service without a build section has its image pulled, a
\* failure of that being a warning; the others are built, the error of a
\* failed build is appended and the loop continues
ComposeService ==
    /\ MainAt("services")
    /\ pending # {}
    /\ \E Name \in pending, ok \in BOOLEAN :
          LET service == project[Name] IN
          /\ pending' = pending \ {Name}
          /\ IF ~service.Build
             THEN /\ engineImages' = IF service.Image # "" /\ ok
                                     THEN engineImages \cup {service.Image}
                                     ELSE engineImages
                  /\ errors' = IF service.Image # "" /\ ~ok
                               THEN Append(errors, "Warning: Failed to pull image")
                               ELSE errors
                  /\ UNCHANGED <<buildErrors, result>>
             ELSE IF ok
             THEN /\ result' = [result EXCEPT
                        !.ImageIDs = (Name :> ServiceImageID(Name)) @@ @,
                        !.ServiceOutputs = (Name :> ServiceImageID(Name)) @@ @]
                  /\ engineImages' = engineImages \cup {ServiceImageID(Name), Name \o ":latest"}
                  /\ UNCHANGED <<buildErrors, errors>>
             ELSE /\ buildErrors' = Append(buildErrors, Name)
                  /\ result' = [result EXCEPT !.ServiceOutputs = (Name :> "") @@ @]
                  /\ UNCHANGED <<engineImages, errors>>
    /\ UNCHANGED <<lpc, buildErr, finalStatus, panicking>>
    /\ UNCHANGED <<finalImageTags, disk, runYAML>>

\* part_002 523-532: buildComposeProject returned its errors
ComposeEnd ==
    /\ MainAt("services")
    /\ pending = {}
    /\ IF Len(buildErrors) > 0
       THEN Fail("errors during the compose project building")
       ELSE GoOn("tags")
    /\ UNCHANGED <<pending, buildErrors, result, finalImageTags, engineImages, disk, runYAML>>

\* part_002 534-617: the Dockerfile is located and the single image is built
\* under the tags of the specification
SingleImage ==
    /\ MainAt("dockerfile")
    /\ \E out \in {"ok", "nofile", "err"} :
          CASE out = "ok" ->
                   /\ result' = [result EXCEPT
                         !.ImageID = ImageID,
                         !.ImageIDs = (bspec.Name :> ImageID) @@ @,
                         !.ServiceOutputs = (bspec.Name :> ImageID) @@ @]
                   /\ engineImages' = engineImages \cup {ImageID}
                                        \cup {bspec.Tags[i] : i \in 1..Len(bspec.Tags)}
                   /\ GoOn("tags")
            [] out = "nofile" ->
                   /\ Fail("not found/provided Dockerfile for the build")
                   /\ UNCHANGED <<result, engineImages>>
            [] out = "err" ->
                   /\ Fail("erreur lors du build Docker")
                   /\ UNCHANGED <<result, engineImages>>
    /\ UNCHANGED <<pending, buildErrors, finalImageTags, disk, runYAML>>

\* part_002 633-668: the tag table of the outputs
TagTable(s, res) ==
    IF s.ComposeFile # ""
    THEN [n \in DOMAIN res.ServiceOutputs |-> <<s.Name \o "_" \o n \o ":latest">>]
    ELSE IF res.ImageID # ""
    THEN (s.Name :> (IF Len(s.Tags) > 0 THEN s.Tags ELSE <<s.Name \o ":" \o s.Version>>))
    ELSE EmptyMap

\* part_002 620-668: the output directory is made, the tags are collected and
\* applied; a tag the engine refuses is a warning
OutputsTag ==
    /\ MainAt("tags")
    /\ \E ok \in BOOLEAN :
          IF bspec.OutputTarget = "local" /\ bspec.LocalPath # NoPath /\ ~ok
          THEN /\ Fail("cannot create the output base directory")
               /\ UNCHANGED <<finalImageTags, engineImages>>
          ELSE LET table == TagTable(bspec, result)
                   tags == UNION {{table[n][i] : i \in 1..Len(table[n])} : n \in DOMAIN table}
               IN /\ finalImageTags' = table
                  /\ \E applied \in SUBSET tags :
                        /\ engineImages' = engineImages \cup applied
                        /\ IF applied = tags THEN GoOn("sink")
                           ELSE Warn("Warning: Failed to tag image", "sink")
    /\ UNCHANGED <<pending, buildErrors, result, disk, runYAML>>

\* part_002 699-700: the file a service's image is exported to
ServiceTar(s, serviceName) ==
    Join(OutputBasePath(s), Path(FALSE, <<s.Name \o "_" \o serviceName \o ".tar">>))

\* the objects of the store: the exported image of a service, the reference
\* file of a tag
MainObject(serviceName, version) ==
    [kind |-> "image", of |-> serviceName \o "-" \o version \o ".tar"]
RefObject(tag) == [kind |-> "ref", of |-> tag]

\* what can happen to one export: the image does not reach the store, the
\* client for the reference files cannot be made, the reference files are
\* written one by one
UploadOutcomes == {"exportErr", "noClient", "refs"}

\* exportAndUploadImage: the object names returned and the error; a reference
\* file that cannot be written is skipped
exportAndUploadImage(serviceName, version, tags, outcome, written) ==
    CASE outcome = "exportErr" -> [objectNames |-> {}, err |-> "erreur lors de l'upload vers B2"]
      [] outcome = "noClient" ->
            [objectNames |-> {MainObject(serviceName, version)}, err |-> ""]
      [] OTHER ->
            [objectNames |-> {MainObject(serviceName, version)}
                               \cup {RefObject(tags[i]) : i \in {j \in 1..Len(tags) : tags[j] \in written}},
             err |-> ""]

\* the tags of a tag table
TagsOf(table) == UNION {{table[n][i] : i \in 1..Len(table[n])} : n \in DOMAIN table}

\* part_002 670-723: the switch on OutputTarget
OutputsSink ==
    /\ MainAt("sink")
    /\ \E b2Config \in BOOLEAN, ok \in BOOLEAN :
          CASE bspec.OutputTarget = "b2" ->
                   /\ IF ~b2Config
                      THEN /\ Fail("OutputTarget is 'b2' but no config is defined")
                           /\ UNCHANGED result
                      ELSE \E outcome \in [DOMAIN result.ServiceOutputs -> UploadOutcomes],
                              written \in SUBSET TagsOf(finalImageTags) :
                              LET up(n) == exportAndUploadImage(n, bspec.Version, finalImageTags[n],
                                                                outcome[n], written)
                              IN /\ result' = [result EXCEPT !.B2ObjectNames =
                                        UNION {up(n).objectNames : n \in DOMAIN result.ServiceOutputs}]
                                 /\ IF \E n \in DOMAIN result.ServiceOutputs : up(n).err # ""
                                    THEN Warn("Warning: Failed to export/upload image to B2", "runyml")
                                    ELSE GoOn("runyml")
                   /\ UNCHANGED disk
            [] bspec.OutputTarget = "local" ->
                   IF ok
                   THEN /\ result' = [result EXCEPT !.LocalImagePaths =
                              [n \in DOMAIN result.ServiceOutputs |-> ServiceTar(bspec, n)]]
                        /\ disk' = disk \cup {ServiceTar(bspec, n) : n \in DOMAIN result.ServiceOutputs}
                        /\ GoOn("runyml")
                   ELSE /\ Fail("error during the service image saving locally")
                        /\ UNCHANGED <<result, disk>>
            [] bspec.OutputTarget = "docker" ->
                   /\ GoOn("runyml")
                   /\ UNCHANGED <<result, disk>>
            [] OTHER ->
                   /\ Fail("OutputTarget not supported")
                   /\ UNCHANGED <<result, disk>>
    /\ UNCHANGED <<pending, buildErrors, finalImageTags, engineImages, runYAML>>

\* (variant: the first tag without a fallback)
getImageRefForRunTagOnly(serviceName, storageType, res, tags) ==
    IF serviceName \in DOMAIN tags /\ Len(tags[serviceName]) > 0
    THEN tags[serviceName][1]
    ELSE ""

\* getImageRefForRun
getImageRefForRun(serviceName, storageType, res, tags) ==
    LET tagged == /\ serviceName \in DOMAIN tags
                  /\ Len(tags[serviceName]) > 0
                  /\ tags[serviceName][1] # ""
        known == /\ serviceName \in DOMAIN res.ImageIDs
                 /\ res.ImageIDs[serviceName] # ""
    IN CASE storageType = "local" ->
                IF /\ serviceName \in DOMAIN res.LocalImagePaths
                   /\ res.LocalImagePaths[serviceName] # NoPath
                THEN Base(res.LocalImagePaths[serviceName])
                ELSE "local:" \o serviceName \o "_image_not_found.tar"
         [] storageType = "docker" ->
                IF tagged THEN tags[serviceName][1]
                ELSE IF known THEN serviceName \o ":latest"
                ELSE "docker:" \o serviceName \o "_image_or_tag_not_found"
         [] OTHER ->
                IF tagged THEN tags[serviceName][1]
                ELSE IF known THEN res.ImageIDs[serviceName]
                ELSE "unknown_storage:" \o serviceName \o "_not_found"

\* part_002 1718-1733: the environment of a compose service in the run file
ServiceEnvironment(runtimeEnv, environment) ==
    Overlay(runtimeEnv,
            [k \in DOMAIN environment |->
                IF environment[k] = NilValue THEN "" ELSE environment[k]])

\* generateRunYAML: the services of the run file; composeProject is nil when
\* parsed is FALSE
generateRunYAML(s, storageType, res, runtimeEnv, tags, parsed, services) ==
    IF parsed
    THEN [n \in DOMAIN services |->
            [Image |-> getImageRefForRun(n, storageType, res, tags),
             Environment |-> ServiceEnvironment(runtimeEnv, services[n].Environment)]]
    ELSE IF s.Name \notin DOMAIN res.ImageIDs /\ storageType # "local"
    THEN EmptyMap
    ELSE (s.Name :> [Image |-> getImageRefForRun(s.Name, storageType, res, tags),
                     Environment |-> runtimeEnv])

\* part_002 266-323: mergedEnv of the env files and spec.Env, then
\* finalRuntimeEnv with the secrets
FinalRuntimeEnv(files, env, secrets) == Overlay(Overlay(files, env), secrets)

\* part_002 728: runConfigPath
RunConfigPath(s) ==
    Join(OutputBasePath(s), Path(FALSE, <<s.Name \o "-" \o s.Version \o ".run.yml">>))

\* part_002 725-771: the run file is generated when asked for, from the
\* compose file read again, and written when it has a service; the result of
\* os.WriteFile is dropped; result.Success = true
RunFile ==
    /\ MainAt("runyml")
    /\ IF ~bspec.Generate
       THEN UNCHANGED <<disk, runYAML>>
       ELSE \E parsed \in BOOLEAN, wrote \in BOOLEAN :
               LET doc == generateRunYAML(bspec, storage, result,
                                          FinalRuntimeEnv(fileEnv, specEnv, runtimeSecrets),
                                          finalImageTags,
                                          parsed /\ bspec.ComposeFile # "", project)
               IN IF DOMAIN doc # {} /\ wrote
                  THEN /\ disk' = disk \cup {RunConfigPath(bspec)}
                       /\ runYAML' = [written |-> TRUE, path |-> RunConfigPath(bspec),
                                      Services |-> doc]
                  ELSE UNCHANGED <<disk, runYAML>>
    /\ GoOn("defers")
    /\ UNCHANGED <<pending, buildErrors, result, finalImageTags, engineImages>>

\* os.Stat succeeds on a file: it was written, and its directory was not
\* removed with the build directory
FileExists(p) == p \in disk /\ (Beneath(p, BuildDir) => dirExists)

\* ------------------------------------------------------------- git codebase
\* the remote repository: its branches with their commits, oldest first
RemoteBranches == [main |-> <<"c1", "c2">>, dev |-> <<"c1", "c3">>]
RemoteCommits == UNION {{RemoteBranches[b][i] : i \in 1..Len(RemoteBranches[b])} :
                        b \in DOMAIN RemoteBranches}
Tip(b) == RemoteBranches[b][Len(RemoteBranches[b])]

\* the branches and commits a codebase can ask for; "c9" is in no repository
GitConfigs == [Branch : {"", "main", "dev", "gone"}, Commit : {"", "c1", "c2", "c3", "c9"}]

\* part_002 822-834: what PlainCloneContext brings: everything, or with a
\* branch the tip of that branch alone (SingleBranch, Depth 1)
Cloned(config) ==
    IF config.Branch = "" THEN RemoteCommits ELSE {Tip(config.Branch)}

\* fetchGitRepoWithGoGit at position pc
GitAt(pc) ==
    /\ gpc = pc
    /\ UNCHANGED gitConfig
    /\ UNCHANGED besideGit

\* the function returns err
GitReturn(err) ==
    /\ gpc' = "returned"
    /\ gitErr' = err

\* part_002 836-863: the destination is cleared and the repository is cloned
GitClone ==
    /\ GitAt("clone")
    /\ \E out \in {"ok", "auth", "err"} :
          CASE out = "ok" /\ (gitConfig.Branch = "" \/ gitConfig.Branch \in DOMAIN RemoteBranches) ->
                   /\ objects' = Cloned(gitConfig)
                   /\ IF gitConfig.Commit = "" THEN GitReturn("")
                      ELSE gpc' = "checkout" /\ UNCHANGED gitErr
            [] out = "auth" ->
                   /\ GitReturn("authentication require for the codebase fetching")
                   /\ UNCHANGED objects
            [] OTHER ->
                   /\ GitReturn("error during the repository cloning")
                   /\ UNCHANGED objects
    /\ UNCHANGED <<checkouts, fetches>>

\* w.Checkout of a commit: an error when the repository does not hold the
\* commit, and possibly otherwise
CheckoutResults(commit, held) == IF commit \in held THEN {"ok", "err"} ELSE {"err"}

\* (variant: a checkout that fails leads to the retry at once)
AfterCheckoutNoFetch(r) == IF r = "ok" THEN "returned" ELSE "retry"

\* part_002 879-881: where a checkout with result r leads
AfterCheckout(r) == IF r = "ok" THEN "returned" ELSE "fetch"

\* part_002 866-880: the requested commit is checked out
GitCheckout ==
    /\ GitAt("checkout")
    /\ \E r \in CheckoutResults(gitConfig.Commit, objects) :
          /\ checkouts' = Append(checkouts, r)
          /\ gpc' = AfterCheckout(r)
    /\ UNCHANGED <<objects, fetches, gitErr>>

\* part_002 881-907: all branches and tags are fetched; an error other than
\* NoErrAlreadyUpToDate is returned together with the checkout's
GitFetch ==
    /\ GitAt("fetch")
    /\ \E r \in {"ok", "uptodate", "err"} :
          /\ fetches' = Append(fetches, r)
          /\ CASE r = "ok" ->
                      /\ \E got \in {RemoteCommits, {Tip(b) : b \in DOMAIN RemoteBranches}} :
                            objects' = objects \cup got
                      /\ gpc' = "retry"
                      /\ UNCHANGED gitErr
               [] r = "uptodate" ->
                      /\ gpc' = "retry"
                      /\ UNCHANGED <<objects, gitErr>>
               [] r = "err" ->
                      /\ GitReturn("error during the checkout of the commit and fetch also failed")
                      /\ UNCHANGED objects
    /\ UNCHANGED checkouts

\* part_002 909-915: the checkout is tried again, an error of it is returned
GitRetry ==
    /\ GitAt("retry")
    /\ \E r \in CheckoutResults(gitConfig.Commit, objects) :
          /\ checkouts' = Append(checkouts, r)
          /\ IF r = "ok" THEN GitReturn("")
             ELSE GitReturn("error during the checkout of the commit (after fetch)")
    /\ UNCHANGED <<objects, fetches>>

\* ------------------------------------------------------------- single image build
\* buildSingleImage (part_002) and buildSingleImageWithLogs (socket.go)

ImgVariants == {"buildSingleImage", "buildSingleImageWithLogs"}

\* an image identifier: its hexadecimal part and whether "sha256:" precedes it
ImgID(prefixed, hex) == [prefixed |-> prefixed, hex |-> hex]
EmptyID == ImgID(FALSE, "")

\* strings.TrimPrefix(id, "sha256:")
TrimPrefix(id) == [id EXCEPT !.prefixed = FALSE]

\* the identifier of a "Successfully built <id>" line, of an auxiliary record
\* and the one the engine's inspection of a tag returns
StreamID == ImgID(FALSE, "0a1b2c")
AuxID == ImgID(TRUE, "0a1b2c3d4e5f")
InspectedID == ImgID(TRUE, "0a1b2c3d4e5f")

\* the messages of the engine's build stream: a stream line that may be the
\* "Successfully built" one, an auxiliary record that may carry an ID, or an
\* error
StreamMessages ==
    [built : {EmptyID, StreamID}, aux : {EmptyID, AuxID}, error : {FALSE}]
        \cup {[built |-> EmptyID, aux |-> EmptyID, error |-> TRUE]}

BuildStreams == UNION {[1..n -> StreamMessages] : n \in 0..MaxStream}

\* buildOptions.Version of the first request
FirstVersion == IF imgBuildKit THEN "BuilderBuildKit" ELSE "BuilderV1"

\* the replies of the engine to ImageBuild: a response, an error whose text
\* names BuildKit, another error
ImageBuildReplies == {"response", "errBuildKit", "err"}

ImgReturn(id, err) ==
    /\ ipc' = "returned"
    /\ builtID' = id
    /\ imgErr' = err

\* the first s.dockerClient.ImageBuild and the decision that follows it
ImgRequest ==
    /\ ipc = "request"
    /\ \E reply \in ImageBuildReplies :
          /\ requests' = <<FirstVersion>>
          /\ replies' = <<reply>>
          /\ CASE reply = "response" ->
                    ipc' = "stream" /\ UNCHANGED <<builtID, imgErr>>
               [] reply # "response" /\ imgVariant = "buildSingleImage"
                       /\ imgBuildKit /\ reply = "errBuildKit" ->
                    ipc' = "fallback" /\ UNCHANGED <<builtID, imgErr>>
               [] OTHER -> ImgReturn(EmptyID, "start")
    /\ UNCHANGED <<imgVariant, imgBuildKit, imgTags, imgStream, imgGarbled, handsAll, imgPos, streamErr>>
    /\ UNCHANGED besideImage

\* buildSingleImage asks again with the legacy builder
ImgFallback ==
    /\ ipc = "fallback"
    /\ \E reply \in ImageBuildReplies :
          /\ requests' = Append(requests, "BuilderV1")
          /\ replies' = Append(replies, reply)
          /\ IF reply = "response"
             THEN ipc' = "stream" /\ UNCHANGED <<builtID, imgErr>>
             ELSE ImgReturn(EmptyID, "start")
    /\ UNCHANGED <<imgVariant, imgBuildKit, imgTags, imgStream, imgGarbled, handsAll, imgPos, streamErr>>
    /\ UNCHANGED besideImage

\* the identifier after the "Successfully built" part of a message
AfterBuiltLine(m, id) == IF m.built # EmptyID THEN TrimPrefix(m.built) ELSE id

\* the identifier after the auxiliary part of a message
AfterAux(m, id) == IF m.aux # EmptyID THEN TrimPrefix(m.aux) ELSE id

\* one message of the stream is decoded and handled
ImgMessage ==
    /\ ipc = "stream"
    /\ imgPos <= Len(imgStream)
    /\ LET m == imgStream[imgPos] IN
          IF imgVariant = "buildSingleImage"
          THEN IF m.error
               THEN ImgReturn(EmptyID, "stream") /\ UNCHANGED <<imgPos, streamErr>>
               ELSE /\ builtID' = AfterAux(m, AfterBuiltLine(m, builtID))
                    /\ imgPos' = imgPos + 1
                    /\ UNCHANGED <<ipc, imgErr, streamErr>>
          ELSE IF m.error
               THEN /\ streamErr' = TRUE
                    /\ ipc' = "resolve"
                    /\ UNCHANGED <<builtID, imgErr, imgPos>>
               ELSE /\ builtID' = IF m.aux # EmptyID \/ handsAll
                                  THEN AfterAux(m, AfterBuiltLine(m, builtID))
                                  ELSE builtID
                    /\ imgPos' = imgPos + 1
                    /\ UNCHANGED <<ipc, imgErr, streamErr>>
    /\ UNCHANGED <<imgVariant, imgBuildKit, imgTags, requests, replies, imgStream, imgGarbled, handsAll>>
    /\ UNCHANGED besideImage

\* the stream ends, at its end or on bytes that do not decode
ImgStreamEnd ==
    /\ ipc = "stream"
    /\ imgPos > Len(imgStream)
    /\ IF imgVariant = "buildSingleImage"
       THEN IF imgGarbled /\ builtID = EmptyID
            THEN ImgReturn(EmptyID, "decode") /\ UNCHANGED streamErr
            ELSE ipc' = "resolve" /\ UNCHANGED <<builtID, imgErr, streamErr>>
       ELSE /\ streamErr' = imgGarbled
            /\ ipc' = "resolve"
            /\ UNCHANGED <<builtID, imgErr>>
    /\ UNCHANGED <<imgVariant, imgBuildKit, imgTags, requests, replies, imgStream, imgGarbled, handsAll, imgPos>>
    /\ UNCHANGED besideImage

\* the identifier is found by inspecting the first tag when the stream gave
\* none, and the function returns
ImgResolve ==
    /\ ipc = "resolve"
    /\ \E inspected \in BOOLEAN :
          IF imgVariant = "buildSingleImage"
          THEN CASE builtID # EmptyID -> ImgReturn(TrimPrefix(builtID), "")
                 [] builtID = EmptyID /\ imgTags /\ inspected ->
                        ImgReturn(TrimPrefix(InspectedID), "")
                 [] OTHER -> ImgReturn(EmptyID, "noID")
          ELSE LET id == IF builtID # EmptyID THEN builtID
                         ELSE IF imgTags /\ inspected THEN InspectedID
                         ELSE EmptyID
                   err == IF streamErr THEN "stream"
                          ELSE IF id = EmptyID THEN "noID" ELSE ""
               IN  ImgReturn(IF err = "" THEN id ELSE EmptyID, err)
    /\ UNCHANGED <<imgVariant, imgBuildKit, imgTags, requests, replies, imgStream, imgGarbled, handsAll, imgPos, streamErr>>
    /\ UNCHANGED besideImage

\* ------------------------------------------------------------- client
\* Client of src/socket/client.go over its connection (conn.go)

Reqs == 1..MaxReqs

\* an inbound message: the k-th the reader decodes, its request_id, and
\* whether it is an error (Type error or a non-empty Error)
InMsg(k, rid, isErr) == [id |-> k, rid |-> rid, error |-> isErr]
ClientInbound(k) == {InMsg(k, rid, e) : rid \in Reqs \cup {NoRid}, e \in BOOLEAN}

\* make(chan *Message, 1)
NewRespChan == [buf |-> <<>>, closed |-> FALSE]

ClientAlive == clPanic = ""

\* a goroutine of the client panics: nothing recovers it, the process dies
ClientPanics(reason) == clPanic' = reason

\* conn.sendMsg on the client's connection
ClientSendMsg ==
    IF clSendClosed
    THEN ClientPanics(ClosedChannelPanic) /\ UNCHANGED clQueued
    ELSE /\ clQueued' = IF clQueued >= SendCap THEN clQueued ELSE clQueued + 1
         /\ UNCHANGED clPanic

\* Send, lines 160-167: the connection is read under the mutex
SendLoad ==
    /\ ClientAlive
    /\ senderPc = "idle"
    /\ senderPc' = IF ~isConnected \/ clConn = "nil" THEN "not connected" ELSE "send"
    /\ UNCHANGED <<clConn, isConnected, doneClosed, clSendClosed, clQueued, clUp, clReader,
                   clWriter, pendingRequests, respChan, Incoming, reqPc, reqOut, handled,
                   closeCalls, clPanic, ninbound>>
    /\ UNCHANGED besideClient

\* Send, line 169: conn.sendMsg(msg)
SendEnqueue ==
    /\ ClientAlive
    /\ senderPc = "send"
    /\ ClientSendMsg
    /\ senderPc' = IF clSendClosed THEN "dead" ELSE "returned"
    /\ UNCHANGED <<clConn, isConnected, doneClosed, clSendClosed, clUp, clReader,
                   clWriter, pendingRequests, respChan, Incoming, reqPc, reqOut, handled,
                   closeCalls, ninbound>>
    /\ UNCHANGED besideClient

\* SendRequest, lines 175-182
SendRequestLoad(r) ==
    /\ ClientAlive
    /\ reqPc[r] = "idle"
    /\ IF ~isConnected \/ clConn = "nil"
       THEN /\ reqPc' = [reqPc EXCEPT ![r] = "returned"]
            /\ reqOut' = [reqOut EXCEPT ![r] = "client not connected"]
       ELSE /\ reqPc' = [reqPc EXCEPT ![r] = "register"]
            /\ UNCHANGED reqOut
    /\ UNCHANGED <<clConn, isConnected, doneClosed, clSendClosed, clQueued, clUp, clReader,
                   clWriter, pendingRequests, respChan, Incoming, senderPc, handled,
                   closeCalls, clPanic, ninbound>>
    /\ UNCHANGED besideClient

\* SendRequest, lines 194-206: the reply channel is made and registered
SendRequestRegister(r) ==
    /\ ClientAlive
    /\ reqPc[r] = "register"
    /\ respChan' = [respChan EXCEPT ![r] = NewRespChan]
    /\ pendingRequests' = pendingRequests \cup {r}
    /\ reqPc' = [reqPc EXCEPT ![r] = "send"]
    /\ UNCHANGED <<clConn, isConnected, doneClosed, clSendClosed, clQueued, clUp, clReader,
                   clWriter, Incoming, reqOut, senderPc, handled, closeCalls, clPanic, ninbound>>
    /\ UNCHANGED besideClient

\* SendRequest, line 210: conn.sendMsg(msg); a panic runs the deferred delete
SendRequestEnqueue(r) ==
    /\ ClientAlive
    /\ reqPc[r] = "send"
    /\ ClientSendMsg
    /\ IF clSendClosed
       THEN /\ reqPc' = [reqPc EXCEPT ![r] = "dead"]
            /\ pendingRequests' = pendingRequests \ {r}
       ELSE /\ reqPc' = [reqPc EXCEPT ![r] = "wait"]
            /\ UNCHANGED pendingRequests
    /\ UNCHANGED <<clConn, isConnected, doneClosed, clSendClosed, clUp, clReader,
                   clWriter, respChan, Incoming, reqOut, senderPc, handled, closeCalls, ninbound>>
    /\ UNCHANGED besideClient

\* what SendRequest makes of the value received from respChan: a nil message
\* (the channel was closed) is dereferenced
Received(ch) ==
    IF ch.buf # <<>>
    THEN IF Head(ch.buf).error THEN "server error response" ELSE "reply"
    ELSE NilDereference

\* SendRequest, lines 213-243: the select on respChan and ctx.Done(), then the
\* deferred delete
SendRequestWait(r) ==
    /\ ClientAlive
    /\ reqPc[r] = "wait"
    /\ \E case \in {"resp", "ctx"} :
          IF case = "resp"
          THEN /\ respChan[r].buf # <<>> \/ respChan[r].closed
               /\ respChan' = [respChan EXCEPT ![r].buf = <<>>]
               /\ IF Received(respChan[r]) = NilDereference
                  THEN /\ ClientPanics(NilDereference)
                       /\ reqPc' = [reqPc EXCEPT ![r] = "dead"]
                       /\ UNCHANGED reqOut
                  ELSE /\ reqOut' = [reqOut EXCEPT ![r] = Received(respChan[r])]
                       /\ reqPc' = [reqPc EXCEPT ![r] = "returned"]
                       /\ UNCHANGED clPanic
          ELSE /\ reqOut' = [reqOut EXCEPT ![r] = "timed out or was canceled"]
               /\ reqPc' = [reqPc EXCEPT ![r] = "returned"]
               /\ UNCHANGED <<respChan, clPanic>>
    /\ pendingRequests' = pendingRequests \ {r}
    /\ UNCHANGED <<clConn, isConnected, doneClosed, clSendClosed, clQueued, clUp, clReader,
                   clWriter, Incoming, senderPc, handled, closeCalls, ninbound>>
    /\ UNCHANGED besideClient

\* (variant: a correlated reply that is put on Incoming like any message)
RouteAllIncoming(m) ==
    IF Len(Incoming) < IncomingCap THEN "Incoming" ELSE "dropped"

\* where handleIncomingMessage puts a message
Route(m) ==
    IF m.rid # NoRid /\ m.rid \in pendingRequests
    THEN IF respChan[m.rid].buf = <<>> THEN "requester" ELSE "no listener"
    ELSE IF Len(Incoming) < IncomingCap THEN "Incoming" ELSE "dropped"

\* the reader decodes a message and calls handleIncomingMessage
handleIncomingMessage ==
    /\ ClientAlive
    /\ clReader = "read"
    /\ clUp
    /\ ninbound < MaxInbound
    /\ \E m \in ClientInbound(ninbound + 1) :
          /\ ninbound' = ninbound + 1
          /\ handled' = Append(handled, [msg |-> m, to |-> Route(m)])
          /\ respChan' = IF Route(m) = "requester"
                         THEN [respChan EXCEPT ![m.rid].buf = <<m>>]
                         ELSE respChan
          /\ pendingRequests' = IF Route(m) \in {"requester", "no listener"}
                                THEN pendingRequests \ {m.rid}
                                ELSE pendingRequests
          /\ Incoming' = IF Route(m) = "Incoming" THEN Append(Incoming, m) ELSE Incoming
    /\ UNCHANGED <<clConn, isConnected, doneClosed, clSendClosed, clQueued, clUp, clReader,
                   clWriter, reqPc, reqOut, senderPc, closeCalls, clPanic>>
    /\ UNCHANGED besideClient

\* the application takes a message from Incoming
AppReceive ==
    /\ ClientAlive
    /\ Incoming # <<>>
    /\ Incoming' = Tail(Incoming)
    /\ UNCHANGED <<clConn, isConnected, doneClosed, clSendClosed, clQueued, clUp, clReader,
                   clWriter, pendingRequests, respChan, reqPc, reqOut, senderPc, handled,
                   closeCalls, clPanic, ninbound>>
    /\ UNCHANGED besideClient

\* the peer goes away or the network fails
ClientTransportFail ==
    /\ ClientAlive
    /\ clUp
    /\ clUp' = FALSE
    /\ UNCHANGED <<clConn, isConnected, doneClosed, clSendClosed, clQueued, clReader,
                   clWriter, pendingRequests, respChan, Incoming, reqPc, reqOut, senderPc,
                   handled, closeCalls, clPanic, ninbound>>
    /\ UNCHANGED besideClient

\* readPump: ReadMessage fails, the loop breaks into the deferred disconnect
ClientReadError ==
    /\ ClientAlive
    /\ clReader = "read"
    /\ ~clUp
    /\ clReader' = "disconnect"
    /\ UNCHANGED <<clConn, isConnected, doneClosed, clSendClosed, clQueued, clUp,
                   clWriter, pendingRequests, respChan, Incoming, reqPc, reqOut, senderPc,
                   handled, closeCalls, clPanic, ninbound>>
    /\ UNCHANGED besideClient

\* handleDisconnect, lines 129-141: the connection is forgotten
handleDisconnect ==
    /\ ClientAlive
    /\ clReader = "disconnect"
    /\ isConnected' = FALSE
    /\ clConn' = "nil"
    /\ clReader' = "cleanup"
    /\ UNCHANGED <<doneClosed, clSendClosed, clQueued, clUp,
                   clWriter, pendingRequests, respChan, Incoming, reqPc, reqOut, senderPc,
                   handled, closeCalls, clPanic, ninbound>>
    /\ UNCHANGED besideClient

\* handleDisconnect, lines 144-154: every pending reply channel is closed and
\* forgotten
handleDisconnectCleanup ==
    /\ ClientAlive
    /\ clReader = "cleanup"
    /\ respChan' = [r \in Reqs |-> IF r \in pendingRequests
                                   THEN [respChan[r] EXCEPT !.closed = TRUE]
                                   ELSE respChan[r]]
    /\ pendingRequests' = {}
    /\ clReader' = "done"
    /\ UNCHANGED <<clConn, isConnected, doneClosed, clSendClosed, clQueued, clUp,
                   clWriter, Incoming, reqPc, reqOut, senderPc,
                   handled, closeCalls, clPanic, ninbound>>
    /\ UNCHANGED besideClient

\* writePump of the client's connection: a message is written, or the closed
\* and drained channel or a failed write ends it and the transport is closed
ClientWritePump ==
    /\ ClientAlive
    /\ clWriter = "run"
    /\ IF clQueued > 0
       THEN /\ clQueued' = clQueued - 1
            /\ clWriter' = IF clUp THEN "run" ELSE "done"
            /\ UNCHANGED clUp
       ELSE /\ clSendClosed \/ ~clUp
            /\ clWriter' = "done"
            /\ clUp' = FALSE
            /\ UNCHANGED clQueued
    /\ UNCHANGED <<clConn, isConnected, doneClosed, clSendClosed, clReader,
                   pendingRequests, respChan, Incoming, reqPc, reqOut, senderPc,
                   handled, closeCalls, clPanic, ninbound>>
    /\ UNCHANGED besideClient

\* Close, line 254: close(c.Done)
CloseDone == [panic |-> IF doneClosed THEN ClosedTwicePanic ELSE "", done |-> TRUE]

\* Close, under the mutex
Close ==
    /\ ClientAlive
    /\ closeCalls < MaxCloses
    /\ closeCalls' = closeCalls + 1
    /\ IF CloseDone.panic # ""
       THEN /\ ClientPanics(CloseDone.panic)
            /\ UNCHANGED <<doneClosed, clSendClosed, isConnected>>
       ELSE /\ doneClosed' = CloseDone.done
            /\ IF clConn # "nil" /\ isConnected
               THEN IF clSendClosed
                    THEN ClientPanics(ClosedTwicePanic) /\ UNCHANGED <<clSendClosed, isConnected>>
                    ELSE /\ clSendClosed' = TRUE
                         /\ isConnected' = FALSE
                         /\ UNCHANGED clPanic
               ELSE /\ isConnected' = FALSE
                    /\ UNCHANGED <<clSendClosed, clPanic>>
    /\ UNCHANGED <<clConn, clQueued, clUp, clReader, clWriter,
                   pendingRequests, respChan, Incoming, reqPc, reqOut, senderPc,
                   handled, ninbound>>
    /\ UNCHANGED besideClient

\* ------------------------------------------------------------- job parts: specification
\* nothing of a job body is running
BodyIdle ==
    /\ impl = "runBuildLogic"
    /\ bspec = CHOOSE s \in BuildSpecs : TRUE
    /\ lpc = "done"
    /\ buildErr = ""
    /\ finalStatus = "success"
    /\ artifactRef = NoRef
    /\ shouldCleanup = FALSE
    /\ deferred = <<>>
    /\ dirExists = FALSE
    /\ phases = <<>>
    /\ statuses = <<>>
    /\ chanClosed = FALSE
    /\ panicking = ""
    /\ crashed = FALSE
    /\ errors = <<>>

\* no build step is running
StepsIdle ==
    /\ steps = <<>>
    /\ stepIdx = 1
    /\ stepPc = "lookup"
    /\ extractedBinaries = {}
    /\ stepsBuilt = {}
    /\ injected = {}


\* no main build is running
ManifestIdle ==
    /\ storage = "docker"
    /\ fileEnv = EmptyMap
    /\ specEnv = EmptyMap
    /\ runtimeSecrets = EmptyMap
    /\ project = EmptyMap
    /\ pending = {}
    /\ buildErrors = <<>>
    /\ result = EmptyResult
    /\ finalImageTags = EmptyMap
    /\ engineImages = {}
    /\ disk = {}
    /\ runYAML = NoRunYAML

\* no git codebase is being fetched
GitIdle ==
    /\ gitConfig = [Branch |-> "", Commit |-> ""]
    /\ objects = {}
    /\ gpc = "returned"
    /\ checkouts = <<>>
    /\ fetches = <<>>
    /\ gitErr = ""

\* no single image build runs
ImageIdle ==
    /\ imgVariant = "buildSingleImage"
    /\ imgBuildKit = FALSE
    /\ imgTags = FALSE
    /\ requests = <<>>
    /\ replies = <<>>
    /\ imgStream = <<>>
    /\ imgGarbled = FALSE
    /\ handsAll = FALSE
    /\ imgPos = 1
    /\ streamErr = FALSE
    /\ ipc = "returned"
    /\ builtID = EmptyID
    /\ imgErr = ""

\* no client is connected
ClientIdle ==
    /\ clConn = "nil"
    /\ isConnected = FALSE
    /\ doneClosed = FALSE
    /\ clSendClosed = FALSE
    /\ clQueued = 0
    /\ clUp = FALSE
    /\ clReader = "done"
    /\ clWriter = "done"
    /\ pendingRequests = {}
    /\ respChan = [r \in Reqs |-> NewRespChan]
    /\ Incoming = <<>>
    /\ reqPc = [r \in Reqs |-> "returned"]
    /\ reqOut = [r \in Reqs |-> ""]
    /\ senderPc = "returned"
    /\ handled = <<>>
    /\ closeCalls = MaxCloses
    /\ clPanic = ""
    /\ ninbound = MaxInbound

AuxIdle == StepsIdle /\ ManifestIdle /\ GitIdle /\ ImageIdle /\ ClientIdle

\* a job body that fetched its codebase and comes to the build steps of a
\* specification that lists at most MaxSteps of them
InitSteps ==
    /\ impl \in Impls
    /\ steps \in UNION {[1..n -> BuildStepRecords] : n \in 0..MaxSteps}
    /\ bspec = [Name |-> "demo", Version |-> "1", Codebases |-> {"app"},
                BuildSteps |-> StepCodebases(steps), Dockerfile |-> "Dockerfile",
                ComposeFile |-> "", Tags |-> <<"demo:1">>, OutputTarget |-> "docker",
                LocalPath |-> NoPath, Secrets |-> FALSE, Generate |-> FALSE]
    /\ lpc = "step"
    /\ buildErr = ""
    /\ finalStatus = "success"
    /\ artifactRef = NoRef
    /\ shouldCleanup = TRUE
    /\ deferred = IF impl = "Build" THEN <<"unlock", "remove">> ELSE <<"status", "cleanup">>
    /\ dirExists = TRUE
    /\ phases = IF impl = "Build"
                THEN <<"setup", "fetching_secrets", "downloading_resources",
                       "fetching_codebases", "running_steps">>
                ELSE <<"start", "setup", "preparing_env", "downloading_resources",
                       "fetching_codebases">>
    /\ statuses = IF impl = "Build" THEN <<>>
                  ELSE <<StatusPayload("starting", NoRef, ""),
                         StatusPayload("preparing_env", NoRef, ""),
                         StatusPayload("downloading_resources", NoRef, ""),
                         StatusPayload("fetching_codebases", NoRef, "")>>
    /\ chanClosed = FALSE
    /\ panicking = ""
    /\ crashed = FALSE
    /\ errors = <<>>
    /\ stepIdx = 1
    /\ stepPc = "lookup"
    /\ extractedBinaries = {}
    /\ stepsBuilt = {}
    /\ injected = {}
    /\ ExtractIdle
    /\ ManifestIdle
    /\ GitIdle
    /\ ImageIdle
    /\ ClientIdle

NextSteps ==
    \/ StepLookup
    \/ StepInject
    \/ StepDockerfile
    \/ StepBuild
    \/ StepExtract
    \/ StepsEnd
    \/ RunStepsSkipped
    \/ RunBuild
    \/ RunSave
    \/ RunManifest
    \/ RunCleanupDefer
    \/ RunStatusDefer
    \/ BuildMain
    \/ BuildOutputs
    \/ BuildManifest
    \/ BuildDeferred

\* a Build that ran its build steps and comes to its main build, or a
\* runBuildLogic at the same place; the compose file names the services of
\* project, whose environments, like those of the specification, are out of
\* the sets given
InitMain(fileEnvs, specEnvs, secretEnvs, serviceEnvs, storages, targets, composeTags) ==
    /\ impl \in Impls
    /\ \E compose \in BOOLEAN :
          /\ bspec \in [Name : {"demo"}, Version : {"1"}, Codebases : {{"app"}},
                        BuildSteps : {<<>>},
                        Dockerfile : IF compose THEN {""} ELSE {"Dockerfile"},
                        ComposeFile : IF compose THEN {"compose.yml"} ELSE {""},
                        Tags : IF compose THEN composeTags ELSE {<<>>, <<"demo:1">>, <<"">>},
                        OutputTarget : targets,
                        LocalPath : {NoPath, Path(TRUE, <<"out">>)},
                        Secrets : {FALSE},
                        Generate : BOOLEAN]
          /\ project \in IF compose THEN Maps(Services, ComposeServices(serviceEnvs))
                         ELSE {EmptyMap}
          /\ lpc = IF impl = "runBuildLogic" THEN "build"
                   ELSE IF compose THEN "compose" ELSE "dockerfile"
    /\ bspec.OutputTarget # "local" => bspec.LocalPath = NoPath
    /\ storage \in storages
    /\ fileEnv \in fileEnvs
    /\ specEnv \in specEnvs
    /\ runtimeSecrets \in secretEnvs
    /\ buildErr = ""
    /\ finalStatus = "success"
    /\ artifactRef = NoRef
    /\ shouldCleanup = IF impl = "Build"
                       THEN ~(bspec.OutputTarget = "local" /\ bspec.LocalPath = NoPath)
                       ELSE TRUE
    /\ deferred = IF impl = "runBuildLogic" THEN <<"status", "cleanup">>
                  ELSE IF shouldCleanup THEN <<"unlock", "remove">> ELSE <<"unlock">>
    /\ dirExists = TRUE
    /\ phases = IF impl = "Build"
                THEN <<"setup", "fetching_secrets", "downloading_resources",
                       "fetching_codebases", "running_steps">>
                ELSE <<"start", "setup", "preparing_env", "downloading_resources",
                       "fetching_codebases">>
    /\ statuses = IF impl = "Build" THEN <<>>
                  ELSE <<StatusPayload("starting", NoRef, ""),
                         StatusPayload("preparing_env", NoRef, ""),
                         StatusPayload("downloading_resources", NoRef, ""),
                         StatusPayload("fetching_codebases", NoRef, "")>>
    /\ chanClosed = FALSE
    /\ panicking = ""
    /\ crashed = FALSE
    /\ errors = <<>>
    /\ pending = {}
    /\ buildErrors = <<>>
    /\ result = EmptyResult
    /\ finalImageTags = EmptyMap
    /\ engineImages = {}
    /\ disk = {}
    /\ runYAML = NoRunYAML
    /\ ExtractIdle
    /\ StepsIdle
    /\ GitIdle
    /\ ImageIdle
    /\ ClientIdle

\* main builds that differ in their services, tags, outputs and storage
InitManifest ==
    InitMain({EmptyMap}, {"K" :> "env"}, {EmptyMap}, {EmptyMap},
             {"local", "docker", ""}, {"docker", "local", "b2"}, {<<>>, <<"demo:1">>})

\* main builds that differ in their environments
InitRunEnv ==
    InitMain(Maps({"K"}, {"file"}), Maps({"K", "L"}, {"env"}), Maps({"K"}, {"secret"}),
             Maps({"K"}, {"service", NilValue}), {"docker"}, {"docker"}, {<<>>})

NextManifest ==
    \/ ComposeLoad
    \/ ComposeService
    \/ ComposeEnd
    \/ SingleImage
    \/ OutputsTag
    \/ OutputsSink
    \/ RunFile
    \/ BuildDeferred
    \/ RunBuild
    \/ RunSave
    \/ RunManifest
    \/ RunCleanupDefer
    \/ RunStatusDefer

\* fetchGitRepoWithGoGit is called for one of the codebases
InitGit ==
    /\ gitConfig \in GitConfigs
    /\ objects = {}
    /\ gpc = "clone"
    /\ checkouts = <<>>
    /\ fetches = <<>>
    /\ gitErr = ""
    /\ BodyIdle
    /\ ExtractIdle
    /\ StepsIdle
    /\ ManifestIdle
    /\ ImageIdle
    /\ ClientIdle

NextGit ==
    \/ GitClone
    \/ GitCheckout
    \/ GitFetch
    \/ GitRetry

\* one of the two functions is called on a build context, with the response
\* the engine will give
InitImage ==
    /\ imgVariant \in ImgVariants
    /\ imgBuildKit \in BOOLEAN
    /\ imgTags \in BOOLEAN
    /\ requests = <<>>
    /\ replies = <<>>
    /\ imgStream \in BuildStreams
    /\ imgGarbled \in BOOLEAN
    /\ handsAll \in (IF imgVariant = "buildSingleImage" THEN {FALSE} ELSE BOOLEAN)
    /\ imgPos = 1
    /\ streamErr = FALSE
    /\ ipc = "request"
    /\ builtID = EmptyID
    /\ imgErr = ""
    /\ BodyIdle
    /\ ExtractIdle
    /\ StepsIdle
    /\ ManifestIdle
    /\ GitIdle
    /\ ClientIdle

NextImage ==
    \/ ImgRequest
    \/ ImgFallback
    \/ ImgMessage
    \/ ImgStreamEnd
    \/ ImgResolve

\* NewClient and a Connect that succeeded: both pumps run
InitConnected ==
    /\ clConn = "conn"
    /\ isConnected = TRUE
    /\ doneClosed = FALSE
    /\ clSendClosed = FALSE
    /\ clQueued = 0
    /\ clUp = TRUE
    /\ clReader = "read"
    /\ clWriter = "run"
    /\ pendingRequests = {}
    /\ respChan = [r \in Reqs |-> NewRespChan]
    /\ Incoming = <<>>
    /\ reqPc = [r \in Reqs |-> "idle"]
    /\ reqOut = [r \in Reqs |-> ""]
    /\ senderPc = "idle"
    /\ handled = <<>>
    /\ closeCalls = 0
    /\ clPanic = ""
    /\ ninbound = 0
    /\ BodyIdle
    /\ ExtractIdle
    /\ StepsIdle
    /\ ManifestIdle
    /\ GitIdle
    /\ ImageIdle

NextClient ==
    \/ SendLoad
    \/ SendEnqueue
    \/ \E r \in Reqs : SendRequestLoad(r)
    \/ \E r \in Reqs : SendRequestRegister(r)
    \/ \E r \in Reqs : SendRequestEnqueue(r)
    \/ \E r \in Reqs : SendRequestWait(r)
    \/ handleIncomingMessage
    \/ AppReceive
    \/ ClientTransportFail
    \/ ClientReadError
    \/ handleDisconnect
    \/ handleDisconnectCleanup
    \/ ClientWritePump
    \/ Close

\* ------------------------------------------------------------- job body: specification
ExtIdle == BodyIdle /\ ExtractIdle /\ AuxIdle

\* a job body about to load one of the build specifications
InitBody ==
    /\ impl \in Impls
    /\ bspec \in BuildSpecs
    /\ lpc = "load"
    /\ buildErr = ""
    /\ finalStatus = "success"
    /\ artifactRef = NoRef
    /\ shouldCleanup = FALSE
    /\ deferred = <<>>
    /\ dirExists = FALSE
    /\ phases = <<>>
    /\ statuses = <<>>
    /\ chanClosed = FALSE
    /\ panicking = ""
    /\ crashed = FALSE
    /\ errors = <<>>

NextBody ==
    \/ LoadSpec
    \/ ConnVanish
    \/ RunStart
    \/ RunMkdir
    \/ RunPrepare
    \/ RunSecrets
    \/ RunResources
    \/ RunCodebases
    \/ RunBuild
    \/ RunSave
    \/ RunManifest
    \/ RunCleanupDefer
    \/ RunStatusDefer
    \/ BuildSetup
    \/ BuildSecrets
    \/ BuildResources
    \/ BuildCodebases
    \/ BuildStepsPhase
    \/ BuildMain
    \/ BuildOutputs
    \/ BuildManifest
    \/ BuildDeferred

\* ------------------------------------------------------------- specification
SockInit ==
    /\ hubClients = {}
    /\ wsUp = [c \in Conns |-> FALSE]
    /\ send = [c \in Conns |-> <<>>]
    /\ sendClosed = [c \in Conns |-> FALSE]
    /\ rpc = [c \in Conns |-> "idle"]
    /\ rmsg = [c \in Conns |-> NoMsg]
    /\ wpc = [c \in Conns |-> "idle"]
    /\ cur = [c \in Conns |-> NoFrame]
    /\ nread = 0
    /\ delivered = [b \in Builds |-> <<>>]
    /\ nextBuild = 0
    /\ buildToClient = [b \in Builds |-> NoConn]
    /\ origin = [b \in Builds |-> [conn |-> NoConn, rid |-> NoRid, spec |-> ""]]
    /\ jpc = [b \in Builds |-> "none"]
    /\ jfinal = [b \in Builds |-> ""]
    /\ produced = [b \in Builds |-> 0]
    /\ calls = [b \in Builds |-> [t \in Tasks |-> NoCall]]
    /\ panicked = FALSE

Init == SockInit /\ ExtIdle

Next ==
    \/ \E c \in Conns : ServeHTTP(c)
    \/ \E c \in Conns : TransportFail(c)
    \/ \E c \in Conns : ReadPumpRead(c)
    \/ \E c \in Conns : ReadPumpReply(c)
    \/ \E c \in Conns : ReadPumpError(c)
    \/ \E c \in Conns : HubUnregister(c)
    \/ \E c \in Conns : WritePumpSend(c)
    \/ \E c \in Conns : WritePumpClosed(c)
    \/ \E c \in Conns : WritePumpPing(c)
    \/ \E b \in Builds : StartBuildAsync(b)
    \/ \E b \in Builds : JobEmit(b)
    \/ \E b \in Builds : JobReturn(b)
    \/ \E b \in Builds : JobDeferLog(b)
    \/ \E b \in Builds : JobFinalStatus(b)
    \/ \E b \in Builds, t \in Tasks : NotifyGet(b, t)
    \/ \E b \in Builds, t \in Tasks : NotifySend(b, t)
    \/ \E b \in Builds, t \in Tasks : NotifyUnregister(b, t)

Spec == Init /\ [][Next]_vars

\* one job body, from the loading of its specification to its end
InitJob == SockInit /\ InitBody /\ ExtractIdle /\ AuxIdle

SpecJob == InitJob /\ [][NextBody]_vars

\* one archive, from its first entry to the return into the job body
InitArchive == SockInit /\ InitExtract /\ AuxIdle

SpecExtract == InitArchive /\ [][NextExtract]_vars

\* the build steps of one job
InitSequencer == SockInit /\ InitSteps
SpecSteps == InitSequencer /\ [][NextSteps]_vars

\* the main build of one job, with its outputs and its run file
InitOutputs == SockInit /\ InitManifest
SpecManifest == InitOutputs /\ [][NextManifest]_vars

\* one git codebase being fetched
InitFetcher == SockInit /\ InitGit
SpecGit == InitFetcher /\ [][NextGit]_vars

\* one single image build
InitBuilder == SockInit /\ InitImage
SpecImage == InitBuilder /\ [][NextImage]_vars

\* one connected client
InitClient == SockInit /\ InitConnected
SpecClient == InitClient /\ [][NextClient]_vars

\* the same for the environments of the run file
InitEnvironments == SockInit /\ InitRunEnv
SpecRunEnv == InitEnvironments /\ [][NextManifest]_vars

\* ------------------------------------------------------------- claims C1..C5
\* C1: of an accepted build request the connection receives one build_queued
\* carrying the request's id, then the job's events, then one terminal
\* build_status, in that order: the build_queued comes first, the terminal
\* status last
C1_JobEventSequence ==
    \A b \in Builds : \A i \in DOMAIN delivered[b] :
        LET m == delivered[b][i] IN
        /\ m.type = EvtBuildQueued => i = 1 /\ m.rid = origin[b].rid
        /\ Terminal(m) => i = Len(delivered[b])

\* C2: a failed job yields one terminal build_status "failure", whatever made
\* it fail, a spec rejected at the job's start included
C2_OneFailureStatus ==
    \A b \in Builds :
        Cardinality({i \in DOMAIN delivered[b] :
                        /\ delivered[b][i].type = EvtBuildStatus
                        /\ delivered[b][i].status = "failure"}) <= 1

\* C3: no log_chunk and no build_status of a build is delivered after the
\* build's terminal status
C3_NoEventAfterTerminal ==
    \A b \in Builds : \A i, j \in DOMAIN delivered[b] :
        (i < j /\ Terminal(delivered[b][i])) => ~JobEvent(delivered[b][j])

\* C4: once a connection has vanished (the Hub has unregistered it and closed
\* its send queue) no job is registered to it any more
C4_VanishedConnectionHasNoJobs ==
    \A c \in Conns :
        (sendClosed[c] /\ c \notin hubClients) => \A b \in Builds : buildToClient[b] # c

\* C5: no producer waits on a full send queue, the reader with its own error
\* reply included
C5_ProducerNeverBlocks ==
    \A c \in Conns : ~(rpc[c] = "reply" /\ ~sendClosed[c] /\ QueueFull(send[c]))

\* ------------------------------------------------------------- claims C6, C7
\* C6 (as stated): whatever the connection has received of a build starts
\* with the build's build_queued
C6_QueuedPrecedesEvents ==
    \A b \in Builds :
        delivered[b] # <<>> => delivered[b][1].type = EvtBuildQueued

\* C6 (amended): the build_queued of a build is never behind an event of the
\* build, neither in what was written nor in the send queue; it is the first
\* frame of the build or, dropped at a full queue, absent
C6_QueuedNeverAfterEvent ==
    \A b \in Builds : \A i \in DOMAIN JobStream(b) :
        JobStream(b)[i].type = EvtBuildQueued => i = 1 /\ JobStream(b)[i].rid = origin[b].rid

\* C6: a build_queued was written and an event of its job after it
C6_Witness ==
    \E b \in Builds :
        /\ Len(delivered[b]) >= 2
        /\ delivered[b][1].type = EvtBuildQueued
        /\ JobEvent(delivered[b][2])

\* C7: the events of one job reach the connection in the order the job
\* produced them (n is the event's rank in the job's production; the two
\* notifications of a rejected spec are produced concurrently, with one rank)
C7_ProductionOrder ==
    \A b \in Builds : \A i, j \in DOMAIN JobStream(b) :
        (i < j /\ JobEvent(JobStream(b)[i]) /\ JobEvent(JobStream(b)[j]))
            => \/ JobStream(b)[i].n < JobStream(b)[j].n
               \/ jpc[b] = "reject" /\ JobStream(b)[i].n = JobStream(b)[j].n

\* C7: a log chunk, a status and a later log chunk of one job were written
C7_Witness ==
    \E b \in Builds : \E i, j, k \in DOMAIN delivered[b] :
        /\ i < j /\ j < k
        /\ delivered[b][i].type = EvtLogChunk
        /\ delivered[b][j].type = EvtBuildStatus
        /\ delivered[b][k].type = EvtLogChunk
        /\ delivered[b][i].n < delivered[b][j].n
        /\ delivered[b][j].n < delivered[b][k].n

\* ------------------------------------------------------------- claims C8..C10
\* this step appends exactly one message to c's send queue
OneReply(c) ==
    /\ Len(send'[c]) = Len(send[c]) + 1
    /\ SubSeq(send'[c], 1, Len(send[c])) = send[c]

\* the message this step appended
Reply(c) == send'[c][Len(send'[c])]

\* the connection is as open after the step as before it
StaysOpen(c) ==
    /\ wsUp'[c] = wsUp[c]
    /\ sendClosed'[c] = sendClosed[c]
    /\ (c \in hubClients') = (c \in hubClients)
    /\ rpc'[c] \in {"read", "reply"}

PayloadUndecodable(in) ==
    in.env /\ in.type \in {EvtBuildRequest, EvtSecretRequest} /\ DecodePayload(in) # ""

UnknownType(in) == in.env /\ in.type \notin {EvtBuildRequest, EvtSecretRequest}

\* secret requests that reach the provider
AsksProvider(in) == in.env /\ in.type = EvtSecretRequest /\ HandlerError(in) = <<>>

EndsWith(s, t) == Len(s) >= Len(t) /\ SubSeq(s, Len(s) - Len(t) + 1, Len(s)) = t

\* C8 (as stated): a frame whose envelope or payload does not decode is
\* answered with an error envelope carrying the frame's request_id, and the
\* connection stays open
C8_DecodeFailureAnswered ==
    [][\A c \in Conns :
          (Reads(c) /\ (~cur'[c].env \/ PayloadUndecodable(cur'[c]))) =>
              /\ rpc'[c] = "reply"
              /\ rmsg'[c].type = EvtError
              /\ rmsg'[c].rid = cur'[c].rid
              /\ StaysOpen(c)]_vars

\* C8 (amended): a frame whose payload does not decode makes the reader send
\* an error envelope carrying the frame's request_id; a frame whose envelope
\* does not decode is ignored or answered with an error envelope of empty
\* request_id; the reader's reply goes to the tail of the send queue and the
\* connection stays open throughout
C8_DecodeFailureReply ==
    [][\A c \in Conns :
          /\ (Reads(c) /\ PayloadUndecodable(cur'[c])) =>
                /\ rpc'[c] = "reply"
                /\ rmsg'[c].type = EvtError
                /\ rmsg'[c].rid = cur'[c].rid
                /\ send'[c] = send[c]
                /\ StaysOpen(c)
          /\ (Reads(c) /\ ~cur'[c].env) =>
                /\ \/ rpc'[c] = "read"
                   \/ /\ rpc'[c] = "reply"
                      /\ rmsg'[c].type = EvtError
                      /\ rmsg'[c].rid = NoRid
                /\ send'[c] = send[c]
                /\ StaysOpen(c)
          /\ (rpc[c] = "reply" /\ rpc'[c] # "reply") =>
                /\ rpc'[c] = "read"
                /\ Enqueues(c, rmsg[c])
                /\ StaysOpen(c)]_vars

\* C8: the error reply to a frame of undecodable payload is in the send queue
\* of the still open connection
C8_Witness ==
    \E c \in Conns : \E i \in DOMAIN send[c] :
        /\ PayloadUndecodable(cur[c])
        /\ send[c][i].type = EvtError
        /\ send[c][i].rid = cur[c].rid
        /\ rpc[c] = "read" /\ wsUp[c] /\ c \in hubClients

\* C9 (as stated): a frame of unknown type gets one error reply carrying its
\* request_id, starts no job and leaves the connection open
C9_UnknownTypeAnswered ==
    [][\A c \in Conns :
          (Reads(c) /\ UnknownType(cur'[c])) =>
              /\ OneReply(c)
              /\ Reply(c).type = EvtError
              /\ Reply(c).rid = cur'[c].rid
              /\ rpc'[c] = "read"
              /\ UNCHANGED jobVars
              /\ StaysOpen(c)]_vars

\* C9 (amended): a frame of unknown type has one error reply carrying its
\* request_id put in the send queue when the queue has room, and none when
\* the queue is full; the reader replies nothing itself, no job is started
\* and the connection stays open
C9_UnknownTypeReply ==
    [][\A c \in Conns :
          (Reads(c) /\ UnknownType(cur'[c])) =>
              /\ IF QueueFull(send[c])
                 THEN send'[c] = send[c]
                 ELSE /\ OneReply(c)
                      /\ Reply(c).type = EvtError
                      /\ Reply(c).rid = cur'[c].rid
              /\ rpc'[c] = "read"
              /\ UNCHANGED jobVars
              /\ StaysOpen(c)]_vars

\* C9: the error reply to a frame of unknown type is in the send queue of the
\* open connection, and no job exists
C9_Witness ==
    \E c \in Conns : \E i \in DOMAIN send[c] :
        /\ UnknownType(cur[c])
        /\ send[c][i].type = EvtError
        /\ send[c][i].rid = cur[c].rid
        /\ nextBuild = 0
        /\ rpc[c] = "read" /\ wsUp[c] /\ c \in hubClients

\* what C10 asks of the reply r to the secret request in
SecretReplyOk(in, r) ==
    /\ r.rid = in.rid
    /\ IF GetSecret(in.source).ok
       THEN /\ r.type = EvtSecretResponse
            /\ r.source = in.source
            /\ r.value = GetSecret(in.source).value
            /\ SendRequestResult(r).ok
       ELSE /\ r.type = EvtError
            /\ r.details = GetSecret(in.source).err
            /\ ~SendRequestResult(r).ok
            /\ EndsWith(SendRequestResult(r).err, GetSecret(in.source).err)

\* C10 (as stated): a secret request gets one reply carrying its request_id:
\* the secret_response with the source and its value, or the error whose
\* details are the provider's message, which SendRequest returns as an error
C10_SecretAnswered ==
    [][\A c \in Conns :
          (Reads(c) /\ AsksProvider(cur'[c])) =>
              /\ OneReply(c)
              /\ SecretReplyOk(cur'[c], Reply(c))
              /\ rpc'[c] = "read"]_vars

\* C10 (amended): a secret request that reaches the provider has that one
\* reply put in the send queue when the queue has room, and none when the
\* queue is full; one whose payload is refused before the provider is asked
\* is answered by the reader with an error carrying its request_id
C10_SecretReply ==
    [][\A c \in Conns :
          /\ (Reads(c) /\ AsksProvider(cur'[c])) =>
                /\ IF QueueFull(send[c])
                   THEN send'[c] = send[c]
                   ELSE OneReply(c) /\ SecretReplyOk(cur'[c], Reply(c))
                /\ rpc'[c] = "read"
          /\ (Reads(c) /\ cur'[c].env /\ cur'[c].type = EvtSecretRequest
                       /\ ~AsksProvider(cur'[c])) =>
                /\ send'[c] = send[c]
                /\ rpc'[c] = "reply"
                /\ rmsg'[c].type = EvtError
                /\ rmsg'[c].rid = cur'[c].rid
                /\ ~SendRequestResult(rmsg'[c]).ok]_vars

\* C10: the error reply to a request for a secret the provider does not have
\* is in the send queue, with the provider's message
C10_Witness ==
    \E c \in Conns : \E i \in DOMAIN send[c] :
        /\ AsksProvider(cur[c])
        /\ ~GetSecret(cur[c].source).ok
        /\ send[c][i].rid = cur[c].rid
        /\ send[c][i].type = EvtError
        /\ send[c][i].details = <<"secret", cur[c].source, "not found">>

\* ------------------------------------------------------------- claims C11..C14
\* the terminal statuses a job body sent that report success
SuccessStatuses == {i \in 1..Len(statuses) : statuses[i].status = "success"}

\* C11: a successful job's terminal build_status carries an artifact_ref shaped
\* by output_target: a tag for the engine target "docker", the absolute path of
\* the exported tar for "local", an object-store location for "b2"
C11_ArtifactRefShape ==
    impl = "runBuildLogic" =>
        \A i \in SuccessStatuses :
            CASE bspec.OutputTarget = "docker" -> statuses[i].artifact_ref.kind = "tag"
              [] bspec.OutputTarget = "local" ->
                     /\ statuses[i].artifact_ref.kind = "file"
                     /\ IsAbs(statuses[i].artifact_ref.path)
              [] bspec.OutputTarget = "b2" -> statuses[i].artifact_ref.kind = "object"
              [] OTHER -> TRUE

\* C12: the first error surfaced by a phase terminates the job: nothing that can
\* fail runs after it, and the job ends in failure with a message (for the socket
\* job: a terminal build_status) that carries that error
C12_FirstErrorTerminates ==
    /\ Len(errors) <= 1
    /\ (lpc = "done" /\ errors # <<>>) =>
          /\ finalStatus = "failure"
          /\ buildErr = errors[1]
          /\ impl = "runBuildLogic" =>
                /\ statuses # <<>>
                /\ statuses[Len(statuses)].status = "failure"
                /\ statuses[Len(statuses)].message = errors[1]

\* C13: a panic raised anywhere in the job's task is caught at the task's
\* boundary and becomes a terminal failure status; the process stays alive
C13_PanicBecomesFailure ==
    impl = "runBuildLogic" =>
        /\ ~crashed
        /\ (panicking # "" => lpc = "defers")
        /\ (lpc = "done" /\ buildErr = "panic during build") =>
              /\ statuses # <<>>
              /\ statuses[Len(statuses)].status = "failure"
              /\ statuses[Len(statuses)].message = buildErr

\* the job body has ended: returned, or left by a panic
Exited == lpc \in {"done", "dead"}

\* the build directory was made: a phase was entered after the setup
MadeDir == \E i \in 1..(Len(phases) - 1) : phases[i] = "setup"

\* the output is local with no local_path
KeepsDir(s) == s.OutputTarget = "local" /\ s.LocalPath = NoPath

\* C14: when a job has ended, on whatever path, its build directory is gone,
\* unless the output is local with no local_path, and then it is still there
C14_BuildDirRemoved ==
    Exited =>
        IF KeepsDir(bspec) THEN MadeDir => dirExists ELSE ~dirExists

\* ------------------------------------------------------------- claims C15, C16
\* C15: whatever the archive holds, the extraction creates and writes nothing
\* outside its root
C15_NoWriteOutsideRoot == \A n \in fs : Beneath(n.p, DestDir)

\* the entries the loop has dealt with so far
Done(i) == i < epos

\* the cleaned destination of entry e is neither the root nor below it
Escapes(e) ==
    LET d == Join(DestDir, e.name) IN
    ~(/\ d.abs = DestDir.abs
      /\ Len(d.elems) >= Len(DestDir.elems)
      /\ \A k \in 1..Len(DestDir.elems) : d.elems[k] = DestDir.elems[k])

\* C16: once the loop has met an entry whose cleaned destination escapes the
\* root, the extraction has stopped at it with its path error, the job body
\* runs no later phase, and a job body that has ended has ended in failure
\* (for the socket job: with a terminal failure status)
C16_EscapingEntryFails ==
    \A i \in 1..Len(archive) :
        (Done(i) /\ Escapes(archive[i])) =>
            /\ eerr \in {"invalid tar content", "invalid content"}
            /\ epos = i + 1
            /\ lpc \notin {"steps", "build"}
            /\ lpc \in {"defers", "done"} => (finalStatus = "failure" /\ buildErr # "")
            /\ (lpc = "done" /\ impl = "runBuildLogic") =>
                  statuses[Len(statuses)].status = "failure"

\* an entry named ../x was met after an entry that was extracted, and the job
\* body has returned its failure
C16_Witness ==
    /\ Len(archive) = 2
    /\ epos = 3
    /\ archive[2].name = Path(FALSE, <<"..", "x">>)
    /\ fs # {}
    /\ impl = "runBuildLogic"
    /\ lpc = "done"
    /\ statuses[Len(statuses)].status = "failure"

\* ------------------------------------------------------------- claim C17
\* the frames of kind k written to the client for build b
Written(b, k) == {i \in 1..Len(delivered[b]) : delivered[b][i].type = k}

\* C17: every log_chunk and build_status put on a connection's queue carries a
\* build id that was handed out, to a request of that very connection, and
\* handed to the build service; the build_queued reply carrying that id answers
\* the request that started the build
C17_BuildIdCarried ==
    \A c \in Conns : \A i \in 1..Len(send[c]) :
        /\ JobEvent(send[c][i]) =>
              /\ send[c][i].build \in 1..nextBuild
              /\ origin[send[c][i].build].conn = c
              /\ jpc[send[c][i].build] # "none"
        /\ send[c][i].type = EvtBuildQueued =>
              /\ send[c][i].build \in 1..nextBuild
              /\ origin[send[c][i].build].conn = c
              /\ origin[send[c][i].build].rid = send[c][i].rid

\* the client of a build was written its build_queued, a log_chunk and a
\* build_status
C17_Witness ==
    \E b \in Builds :
        /\ Written(b, EvtBuildQueued) # {}
        /\ Written(b, EvtLogChunk) # {}
        /\ Written(b, EvtBuildStatus) # {}

\* ------------------------------------------------------------- claim C18
\* the phases that are states of the job (the first log line, the making of
\* the directory and the last log line are not)
JobStates(ph) == {i \in 1..Len(ph) : ph[i] \notin {"start", "setup", "finish"}}

\* C18: the socket job passes through its states in order and emits a
\* build_status on entering each of them, the running of the build steps and
\* the generation of the run file included
C18_EveryStateEmitsStatus ==
    (impl = "runBuildLogic" /\ ~chanClosed) =>
        /\ \A i \in JobStates(phases) :
               \E j \in 1..Len(statuses) : statuses[j].status = phases[i]
        /\ (lpc = "done" /\ finalStatus = "success" /\ bspec.BuildSteps # <<>>) =>
               \E i \in 1..Len(phases) : phases[i] = "running_steps"

\* ------------------------------------------------------------- claims C19, C20
\* the three conditions a specification has to meet
NamedAndVersioned(s) == s.Name # "" /\ s.Version # ""
HasSomethingToBuild(s) ==
    s.Codebases # {} \/ s.BuildSteps # <<>> \/ s.Dockerfile # "" \/ s.ComposeFile # ""
OneBuildFile(s) == ~(s.Dockerfile # "" /\ s.ComposeFile # "")

\* C19: the loader rejects every specification with an empty name or version,
\* with nothing to build, or with both a dockerfile and a compose file, and
\* rejects no specification that meets the three conditions
C19_LoaderValidation ==
    lpc # "load" =>
        ((lpc = "rejected") <=>
            ~(NamedAndVersioned(bspec) /\ HasSomethingToBuild(bspec) /\ OneBuildFile(bspec)))

\* a specification that names a dockerfile and a compose file was rejected
C19_Witness ==
    /\ lpc = "rejected"
    /\ NamedAndVersioned(bspec)
    /\ ~OneBuildFile(bspec)
    /\ buildErr = "don't specify 'dockerfile' et 'compose_file' in the build_config"

\* a build step of s names a codebase that s does not declare
UndeclaredCodebase(s) == \E i \in 1..Len(s.BuildSteps) : s.BuildSteps[i] \notin s.Codebases

\* C20: a specification with a build step that names an undeclared codebase is
\* rejected by the loader, before any phase of the job runs
C20_UndeclaredCodebaseRejected ==
    (lpc # "load" /\ UndeclaredCodebase(bspec)) => (lpc = "rejected" /\ phases = <<>>)

\* ------------------------------------------------------------- claim C21
\* the step at i has what its use_binary_from_step asks for: an earlier step of
\* that name that declares outputs_binary_path, and a binary_target_path
BinaryProvided(i) ==
    /\ \E j \in 1..(i - 1) :
          /\ steps[j].Name = steps[i].UseBinaryFromStep
          /\ steps[j].OutputsBinaryPath # ""
    /\ steps[i].BinaryTargetPath # ""

\* C21: a step that sets use_binary_from_step and lacks an earlier step that
\* outputs that binary, or a binary_target_path, is never built, and the build
\* does not get past the build steps: it fails
C21_StepNeedsItsBinary ==
    \A i \in 1..Len(steps) :
        (steps[i].UseBinaryFromStep # "" /\ ~BinaryProvided(i)) =>
            /\ i \notin stepsBuilt
            /\ lpc \notin {"build", "save", "outputs", "manifest"}
            /\ lpc \in {"defers", "done", "dead"} => finalStatus = "failure"

\* the same for the synchronous Build alone
BuildChecksItsSteps ==
    impl = "Build" => C21_StepNeedsItsBinary

\* Build refused a step whose binary no earlier step provides, and built a
\* step after writing the binary of the step before into its codebase
BuildRefusesStep ==
    /\ impl = "Build"
    /\ Len(steps) = 2
    /\ steps[2].UseBinaryFromStep # "" /\ ~BinaryProvided(2)
    /\ 1 \in stepsBuilt
    /\ lpc = "defers"
    /\ finalStatus = "failure"

\* ------------------------------------------------------------- claims C22..C27
\* the job is over and was a success
Succeeded == lpc = "done" /\ finalStatus = "success"

\* the file the run file's directory holds under a service's image reference
NextToRunFile(image) == Join(Dir(runYAML.path), Path(FALSE, <<image>>))

\* C22: with artifact_storage "local", once the job is over every image of
\* the run file written is the name of a file that exists in the run file's
\* directory
C22_LocalImagesExist ==
    (Succeeded /\ storage = "local" /\ runYAML.written) =>
        \A n \in DOMAIN runYAML.Services : FileExists(NextToRunFile(runYAML.Services[n].Image))

\* the name of a specification's run file
RunFileName(s) == Path(FALSE, <<s.Name \o "-" \o s.Version \o ".run.yml">>)

\* C23: after a successful job with generate = true the run file exists: for
\* Build at the result's RunConfigPath, for a socket-triggered job with local
\* output in the directory of the artifact
C23_RunFileExists ==
    (Succeeded /\ bspec.Generate) =>
        /\ impl = "Build" =>
              (result.RunConfigPath # NoPath /\ FileExists(result.RunConfigPath))
        /\ (impl = "runBuildLogic" /\ bspec.OutputTarget = "local") =>
              FileExists(Join(Dir(artifactRef.path), RunFileName(bspec)))

\* the run file was written from the compose project by a successful Build
\* that stores its artifacts in the engine
EngineRunFile ==
    /\ Succeeded
    /\ impl = "Build"
    /\ storage = "docker"
    /\ runYAML.written

\* the first tag of a service in the tag table, "" when it has none
FirstTag(n) ==
    IF n \in DOMAIN finalImageTags /\ Len(finalImageTags[n]) > 0
    THEN finalImageTags[n][1]
    ELSE ""

\* the image id known for a service, "" when none is
KnownImageID(n) == IF n \in DOMAIN result.ImageIDs THEN result.ImageIDs[n] ELSE ""

\* C24: with the artifacts stored in the engine, a service's image in the run
\* file is its first tag, without one its image id, without that
\* "{service}:latest"
C24_EngineImageFallbacks ==
    EngineRunFile =>
        \A n \in DOMAIN runYAML.Services :
            runYAML.Services[n].Image =
                IF FirstTag(n) # "" THEN FirstTag(n)
                ELSE IF KnownImageID(n) # "" THEN KnownImageID(n)
                ELSE n \o ":latest"

\* C25: a compose service that declares an image and no build section is, in
\* the run file of a successful build with engine storage, a service whose
\* image is the declared reference
C25_DeclaredImageKept ==
    (EngineRunFile /\ DOMAIN runYAML.Services = DOMAIN project) =>
        \A n \in DOMAIN project :
            (~project[n].Build /\ project[n].Image # "") =>
                runYAML.Services[n].Image = project[n].Image

\* the literal value a compose service gives a variable, "" when it gives none
Literal(n, k) ==
    IF k \in DOMAIN project[n].Environment /\ project[n].Environment[k] # NilValue
    THEN project[n].Environment[k]
    ELSE ""

\* C26: in a run file made from a compose project a service has the variables
\* of the specification's environment, of the secrets and of its own
\* environment; a variable has the service's literal value if it gives one,
\* else the secret's value if there is one, else the specification's
C26_ServiceEnvironment ==
    (runYAML.written /\ bspec.ComposeFile # "" /\ DOMAIN runYAML.Services = DOMAIN project) =>
        \A n \in DOMAIN project :
            LET env == runYAML.Services[n].Environment IN
            /\ DOMAIN env = DOMAIN fileEnv \cup DOMAIN specEnv \cup DOMAIN runtimeSecrets
                              \cup DOMAIN project[n].Environment
            /\ \A k \in DOMAIN env :
                  IF k \in DOMAIN project[n].Environment
                  THEN Literal(n, k) # "" => env[k] = Literal(n, k)
                  ELSE IF k \in DOMAIN runtimeSecrets THEN env[k] = runtimeSecrets[k]
                  ELSE IF k \in DOMAIN specEnv THEN env[k] = specEnv[k]
                  ELSE env[k] = fileEnv[k]

\* a run file whose service overrides a variable that the specification and a
\* secret both set, next to a service that takes the secret's value
C26_Witness ==
    /\ runYAML.written
    /\ DOMAIN project = Services
    /\ DOMAIN runYAML.Services = Services
    /\ "K" \in DOMAIN specEnv /\ "K" \in DOMAIN runtimeSecrets
    /\ Literal("web", "K") = "service"
    /\ runYAML.Services["web"].Environment["K"] = "service"
    /\ "K" \notin DOMAIN project["api"].Environment
    /\ runYAML.Services["api"].Environment["K"] = "secret"
    /\ runYAML.Services["api"].Environment["L"] = "env"

\* the compose loop of a Build is over
ComposeDone == impl = "Build" /\ bspec.ComposeFile # "" /\ lpc \notin {"compose", "services"}

\* the services whose image could not be built, and those whose image could not
\* be pulled
BuildFailed == {n \in DOMAIN result.ServiceOutputs : result.ServiceOutputs[n] = ""}
PullFailed ==
    {n \in DOMAIN project :
        ~project[n].Build /\ project[n].Image # "" /\ project[n].Image \notin engineImages}

\* the compose file was read, every service was gone through, and the build
\* went on after the loop or ended in success
WentOn == ComposeDone /\ (lpc \in {"tags", "sink", "runyml"} \/ Succeeded)

\* C27: when the loop over the services is over every service was processed,
\* the errors collected are those of the failed services, and the build does
\* not go on after the loop when a service failed
C27_FailuresCollected ==
    (ComposeDone /\ (buildErrors # <<>> \/ WentOn)) =>
        /\ pending = {}
        /\ \A n \in DOMAIN project : project[n].Build => n \in DOMAIN result.ServiceOutputs
        /\ {buildErrors[i] : i \in 1..Len(buildErrors)} = BuildFailed
        /\ WentOn => (BuildFailed = {} /\ PullFailed = {})

\* the same, for the services that have a build section
ComposeBuildFailuresCollected ==
    (ComposeDone /\ (buildErrors # <<>> \/ WentOn)) =>
        /\ pending = {}
        /\ \A n \in DOMAIN project : project[n].Build => n \in DOMAIN result.ServiceOutputs
        /\ {buildErrors[i] : i \in 1..Len(buildErrors)} = BuildFailed
        /\ Len(buildErrors) = Cardinality(BuildFailed)
        /\ WentOn => BuildFailed = {}
        /\ BuildFailed # {} => finalStatus = "failure"

\* both services failed to build, both errors were collected and the build
\* failed
BothFailuresCollected ==
    /\ ComposeDone
    /\ BuildFailed = Services
    /\ Len(buildErrors) = 2
    /\ finalStatus = "failure"

\* ------------------------------------------------------------- claim C28
\* fetchGitRepoWithGoGit returned after a first checkout that failed
FirstCheckoutFailed == gpc = "returned" /\ Len(checkouts) > 0 /\ checkouts[1] = "err"

Requested == ipc \in {"stream", "resolve", "returned"}

\* the first request met an error whose text names BuildKit
BuildKitFailure == Len(replies) > 0 /\ replies[1] = "errBuildKit"

FellBackOnce ==
    /\ requests # <<>> => requests[1] = "BuilderBuildKit"
    /\ Requested /\ BuildKitFailure => requests = <<"BuilderBuildKit", "BuilderV1">>
    /\ Requested /\ ~BuildKitFailure => Len(requests) = 1

\* C29: a single image build asks the engine's modern builder first, and asks
\* the legacy builder once more after a failure that names the modern builder,
\* and only then
C29_ModernFirstLegacyOnce == FellBackOnce

\* buildSingleImage with BuildKit set in the specification does so
BuildKitSetFallsBack ==
    imgVariant = "buildSingleImage" /\ imgBuildKit => FellBackOnce

\* buildSingleImage fell back and the legacy builder answered
LegacyAnswered ==
    /\ imgVariant = "buildSingleImage"
    /\ requests = <<"BuilderBuildKit", "BuilderV1">>
    /\ replies = <<"errBuildKit", "response">>
    /\ ipc = "returned"
    /\ imgErr = ""

\* buildSingleImageWithLogs gave up on a failure that names BuildKit
LogsGaveUp ==
    /\ imgVariant = "buildSingleImageWithLogs"
    /\ imgBuildKit
    /\ requests = <<"BuilderBuildKit">>
    /\ replies = <<"errBuildKit">>
    /\ ipc = "returned"
    /\ imgErr = "start"

\* the legacy builder was asked first
LegacyFirst == imgVariant = "buildSingleImage" /\ ~imgBuildKit /\ requests = <<"BuilderV1">>

\* the stream holds a "Successfully built" line, an auxiliary record with an ID
HasBuiltLine == \E i \in 1..Len(imgStream) : imgStream[i].built # EmptyID
HasAuxID == \E i \in 1..Len(imgStream) : imgStream[i].aux # EmptyID

BuiltWithBoth == ipc = "returned" /\ imgErr = "" /\ HasBuiltLine /\ HasAuxID

\* C30: a build whose stream held both a "Successfully built" line and an
\* auxiliary record with an ID returns the identifier of the auxiliary record
C30_AuxiliaryPreferred == BuiltWithBoth => builtID = TrimPrefix(AuxID)

\* no "Successfully built" line comes after the last auxiliary record
AuxLast ==
    \A i \in 1..Len(imgStream) :
        imgStream[i].built # EmptyID =>
            \E j \in i..Len(imgStream) : imgStream[j].aux # EmptyID

\* the auxiliary record wins when it comes last or in the same message
AuxiliaryWinsWhenLast == BuiltWithBoth /\ AuxLast => builtID = TrimPrefix(AuxID)

\* buildSingleImage returned the identifier of the line that followed the record
LineAfterRecord ==
    /\ imgVariant = "buildSingleImage"
    /\ imgStream = <<[built |-> EmptyID, aux |-> AuxID, error |-> FALSE],
                     [built |-> StreamID, aux |-> EmptyID, error |-> FALSE]>>
    /\ ipc = "returned"
    /\ imgErr = ""
    /\ builtID = StreamID

\* a callback that is handed the auxiliary records only returns theirs
RecordsOnly ==
    imgVariant = "buildSingleImageWithLogs" /\ ~handsAll /\ BuiltWithBoth
        => builtID = TrimPrefix(AuxID)

\* ------------------------------------------------------------- claim C31
\* the services whose image the job produced
ProducedImages ==
    IF impl = "runBuildLogic" THEN {bspec.Name}
    ELSE IF bspec.ComposeFile # ""
    THEN {n \in DOMAIN result.ServiceOutputs : result.ServiceOutputs[n] # ""}
    ELSE IF result.ImageID # "" THEN {bspec.Name} ELSE {}

\* the tags a produced image is to carry: those of the specification, else
\* the default of its kind of build
ResolvedTags(n) ==
    IF Len(bspec.Tags) > 0 THEN bspec.Tags
    ELSE IF bspec.ComposeFile # "" THEN <<bspec.Name \o "_" \o n \o ":latest">>
    ELSE <<bspec.Name \o ":" \o bspec.Version>>

\* the engine refused a tag
TagRefused == \E i \in 1..Len(errors) : errors[i] = "Warning: Failed to tag image"

TagsApplied ==
    \A n \in ProducedImages :
        \A i \in 1..Len(ResolvedTags(n)) : ResolvedTags(n)[i] \in engineImages

\* C31: after a successful job every produced image carries the tags of the
\* specification when it supplies some, else the default {name}:{version} of
\* a single-image build or {name}_{service}:latest of a compose build, unless
\* the engine refused a tag
C31_TagsResolved == (Succeeded /\ ~TagRefused) => TagsApplied

\* Build resolves and applies the tags of a single image
BuildTagsSingleImage ==
    (impl = "Build" /\ bspec.ComposeFile = "" /\ Succeeded /\ ~TagRefused) =>
        /\ TagsApplied
        /\ result.ImageID # "" => finalImageTags = (bspec.Name :> ResolvedTags(bspec.Name))

\* Build gives the services of a compose build their default tags
BuildTagsComposeDefaults ==
    (impl = "Build" /\ bspec.ComposeFile # "" /\ Succeeded /\ ~TagRefused) =>
        \A n \in ProducedImages : (bspec.Name \o "_" \o n \o ":latest") \in engineImages

\* a socket job without tags ended with an image that carries no tag
SocketJobNoDefault ==
    /\ impl = "runBuildLogic"
    /\ Succeeded
    /\ bspec.Tags = <<>>
    /\ engineImages = {ImageID}

\* a socket job with tags ended with an image that carries them
SocketJobSpecTags ==
    /\ impl = "runBuildLogic"
    /\ Succeeded
    /\ bspec.Tags = <<"demo:1">>
    /\ "demo:1" \in engineImages

\* a compose build with tags ended with images that do not carry them
ComposeTagsUnused ==
    /\ impl = "Build"
    /\ bspec.ComposeFile # ""
    /\ bspec.Tags = <<"demo:1">>
    /\ Succeeded /\ ~TagRefused
    /\ ProducedImages # {}
    /\ "demo:1" \notin engineImages

\* ------------------------------------------------------------- claim C32
\* the exported image of a service is in the store and the reference file of
\* one of its tags is not
RefUploadFailed(n) ==
    /\ n \in DOMAIN finalImageTags
    /\ MainObject(n, bspec.Version) \in result.B2ObjectNames
    /\ \E i \in 1..Len(finalImageTags[n]) : RefObject(finalImageTags[n][i]) \notin result.B2ObjectNames

AfterSink == impl = "Build" /\ bspec.OutputTarget = "b2" /\ lpc \in {"runyml", "defers", "done"}

SomeRefUploadFailed == AfterSink /\ \E n \in DOMAIN result.ServiceOutputs : RefUploadFailed(n)

RefFailureText == "Warning: Failed to write B2 ref file"

\* the failure is in the last status message or in the logs of the result
RefFailureReported ==
    \/ Len(statuses) > 0 /\ statuses[Len(statuses)].message = RefFailureText
    \/ \E i \in 1..Len(errors) : errors[i] = RefFailureText

\* C32: when the reference file of a tag could not be uploaded the job has
\* not failed, the exported image stays recorded in the result, and the
\* failure is reported in the trailing status message
C32_RefUploadFailureReported ==
    SomeRefUploadFailed =>
        /\ buildErr = ""
        /\ finalStatus = "success"
        /\ RefFailureReported

\* the failure is not fatal and the exported image stays recorded
RefUploadFailureNotFatal ==
    SomeRefUploadFailed => buildErr = "" /\ finalStatus = "success"

\* a build ended in success without the reference file of its tag
EndedWithoutRef ==
    /\ SomeRefUploadFailed
    /\ Succeeded
    /\ statuses = <<>>
    /\ errors = <<>>

\* ------------------------------------------------------------- claim C33
\* C33: no task sends on a connection's send queue after the queue was closed
\* (such a send is the panic "send on closed channel")
C33_NoSendAfterClose == ~panicked

\* a job's notifier sent on the queue the Hub had closed
NotifierSentAfterClose ==
    /\ panicked
    /\ \E b \in Builds, t \in Tasks :
          /\ calls[b][t] # NoCall
          /\ calls[b][t].conn \in Conns
          /\ sendClosed[calls[b][t].conn]

\* the reader is never at its error reply once its queue is closed
ReaderNeverRepliesAfterClose ==
    \A c \in Conns : sendClosed[c] => rpc[c] \notin {"read", "reply"}

\* on the client, a Send that read the connection before Close sent after it
SendRacedWithClose ==
    /\ clPanic = ClosedChannelPanic
    /\ senderPc = "dead"
    /\ clSendClosed

\* on the client, a SendRequest that read the connection before Close sent
\* after it
SendRequestRacedWithClose ==
    /\ clPanic = ClosedChannelPanic
    /\ \E r \in Reqs : reqPc[r] = "dead"
    /\ clSendClosed

\* ------------------------------------------------------------- claim C34
\* the connection was lost while SendRequest r had its reply channel pending
LostWhilePending(r) == respChan[r].closed

\* C34: a SendRequest whose connection was lost while its request was
\* pending does not crash, and what it returns is an error
C34_DisconnectIsAnError ==
    \A r \in Reqs :
        LostWhilePending(r) =>
            /\ reqPc[r] # "dead"
            /\ reqPc[r] = "returned" => reqOut[r] \notin {"", "reply"}

\* SendRequest received from the closed channel and dereferenced the nil
\* message
CrashedOnClosedChannel ==
    /\ clPanic = NilDereference
    /\ \E r \in Reqs : LostWhilePending(r) /\ reqPc[r] = "dead"
    /\ clReader = "done"

\* after a lost connection only a context that ends first saves the caller
OnlyTheContextSaves ==
    \A r \in Reqs :
        (LostWhilePending(r) /\ reqPc[r] = "returned") => reqOut[r] = "timed out or was canceled"

\* ------------------------------------------------------------- claim C35
\* C35: Close never fails, however often it is called and whether or not the
\* connection was lost before: it closes no channel a second time
C35_CloseNeverFails == closeCalls > 0 => clPanic # ClosedTwicePanic

\* the first Close does not fail, a lost connection or not
FirstCloseSucceeds == closeCalls = 1 => clPanic # ClosedTwicePanic

\* Close finds the send queue closed only with isConnected false, and then
\* leaves it alone
SendQueueClosedOnce == clSendClosed => ~isConnected

\* Close after a lost connection closed Done and left the send queue alone
ClosedAfterLoss ==
    /\ closeCalls = 1
    /\ clReader = "done"
    /\ doneClosed
    /\ ~clSendClosed
    /\ clPanic = ""

\* the second Close closed Done again
SecondClosePanicked ==
    /\ closeCalls = 2
    /\ doneClosed
    /\ clPanic = ClosedTwicePanic

\* ------------------------------------------------------------- claim C39
\* a message was handled in this step
Handles == Len(handled') = Len(handled) + 1
Last == handled'[Len(handled')]

\* the message matches a request that is pending when it arrives
Correlated(m) == m.rid # NoRid /\ m.rid \in pendingRequests

\* the message is handed to its requester, and to the requester only
ToRequesterOnly(m) ==
    /\ respChan'[m.rid].buf = <<m>>
    /\ \A r \in Reqs \ {m.rid} : respChan'[r] = respChan[r]
    /\ Incoming' = Incoming
    /\ m.rid \notin pendingRequests'

\* a request that left SendRequest is not pending
ExitRemovesEntry ==
    \A r \in Reqs : reqPc[r] \in {"returned", "dead"} => r \notin pendingRequests

\* no request was handed two messages
AtMostOnce ==
    \A i, j \in 1..Len(handled) :
        (i < j /\ handled[i].to = "requester" /\ handled[j].to = "requester")
            => handled[i].msg.rid # handled[j].msg.rid

\* C39, as stated: a correlated message goes to its requester only and at
\* most once, every other message goes to Incoming, and an exit of
\* SendRequest removes its pending entry
C39_RoutedToRequesterOrIncoming ==
    /\ [][Handles =>
            IF Correlated(Last.msg)
            THEN ToRequesterOnly(Last.msg)
            ELSE Incoming' = Append(Incoming, Last.msg) /\ respChan' = respChan]_vars
    /\ [](ExitRemovesEntry /\ AtMostOnce)

\* C39: a correlated message goes to its requester only and at most once;
\* every other message goes to Incoming while Incoming has room and is
\* dropped when it is full; an exit of SendRequest removes its pending entry
C39_RoutedOrDropped ==
    /\ [][Handles =>
            IF Correlated(Last.msg)
            THEN ToRequesterOnly(Last.msg)
            ELSE /\ respChan' = respChan
                 /\ IF Len(Incoming) < IncomingCap
                    THEN Incoming' = Append(Incoming, Last.msg)
                    ELSE Incoming' = Incoming]_vars
    /\ [](ExitRemovesEntry /\ AtMostOnce)

\* a reply reached its requester, who returned it, and another message went
\* to Incoming
C39_Witness ==
    /\ Len(handled) = 2
    /\ handled[1].to = "requester"
    /\ handled[2].to = "Incoming"
    /\ Incoming = <<handled[2].msg>>
    /\ reqPc[handled[1].msg.rid] = "returned"
    /\ reqOut[handled[1].msg.rid] = "reply"
    /\ pendingRequests = {}

\* a message found Incoming full and was dropped
DroppedAtFullIncoming ==
    /\ Len(handled) = 2
    /\ handled[2].to = "dropped"
    /\ Len(Incoming) = IncomingCap

\* a reply never finds its requester's channel occupied
ListenerAlwaysFree == \A i \in 1..Len(handled) : handled[i].to # "no listener"

\* ------------------------------------------------------------- claim C36
\* task t has emitted the terminal build_status of build b and has not yet
\* removed the mapping
TerminalWindow(b, t) == calls[b][t] # NoCall /\ calls[b][t].step = "unreg"

\* in this step task t looks the build up and finds its connection
FindsMapping(b, t) ==
    /\ calls[b][t] # NoCall /\ calls[b][t].step = "get"
    /\ calls'[b][t] # NoCall /\ calls'[b][t].step = "send"

\* C36: between the emission of a terminal build_status and the removal of
\* the build's mapping no other notify of the same build finds the mapping
\* (a notify that finds it goes on to emit its event)
C36_TerminalStatusAtomic ==
    [][\A b \in Builds : \A t, u \in Tasks :
          (t # u /\ TerminalWindow(b, t)) => ~FindsMapping(b, u)]_vars

\* both notifies have emitted their terminal status and neither has removed
\* the mapping: the second emission fell between the first and its removal
EmittedInsideWindow ==
    \E b \in Builds :
        /\ TerminalWindow(b, "main")
        /\ TerminalWindow(b, "aux")
        /\ buildToClient[b] \in Conns
        /\ ~panicked

\* ------------------------------------------------------------- claim C37
\* both pumps of a connection have ended
PumpsEnded(c) == rpc[c] = "done" /\ wpc[c] = "done"

FairPumps ==
    \A c \in Conns :
        /\ WF_vars(ReadPumpReply(c))
        /\ WF_vars(ReadPumpError(c))
        /\ WF_vars(HubUnregister(c))
        /\ WF_vars(WritePumpSend(c))
        /\ WF_vars(WritePumpClosed(c))
        /\ WF_vars(WritePumpPing(c))

SpecFair == Init /\ [][Next]_vars /\ FairPumps

\* the transport of a served connection has failed
TransportFailed(c) == rpc[c] # "idle" /\ ~wsUp[c]

\* the connection is out of the registry and both its pumps have returned
Released(c) == PumpsEnded(c) /\ c \notin hubClients

\* C38: after a connection's transport fails, both its pumps end and the
\* connection leaves the Hub's registry, whatever its send queue held
C38_ReleasedAfterFailure ==
    \A c \in Conns : TransportFailed(c) ~> Released(c)

\* the reader waits in "c.send <- errMsg" for room in a full queue whose
\* writer has returned
ReaderStuck(c) ==
    /\ rpc[c] = "reply"
    /\ ~sendClosed[c]
    /\ QueueFull(send[c])
    /\ wpc[c] = "done"

\* a stuck reader stays stuck, registered, with its queue full
StuckForever ==
    [][\A c \in Conns :
          ReaderStuck(c) => (ReaderStuck(c)' /\ c \in hubClients')]_vars

\* a reader is stuck after the failure of its transport
StuckAfterFailure ==
    \E c \in Conns : TransportFailed(c) /\ ReaderStuck(c) /\ c \in hubClients /\ ~panicked

\* without a reply to send when the transport fails, the pumps do end and the
\* connection is released, unless the process has crashed
ReleasedUnlessReplying ==
    \A c \in Conns :
        (TransportFailed(c) /\ rpc[c] # "reply") ~> (Released(c) \/ panicked)

====
